---- MODULE Spec2Model ----
(***************************************************************************)
(* Verification model of the Cheese KakaoTalk chess bot: the PvP match     *)
(* core (internal/pvpchess), the channel lobby (internal/pvpchan) and the  *)
(* leader lock of cmd/chess-bot.  The Redis store is the shared state; a   *)
(* handler goroutine is a process whose program counter walks through the  *)
(* Redis commands of the call it executes, a few commands per step.        *)
(***************************************************************************)
EXTENDS Integers, Sequences, FiniteSets, TLC

\* ------------------------------------------------------------------ bounds
MaxGames == 2
MaxCalls == 2
MaxLobbyCalls == 3
MaxTicks == 3
MaxFrames == 2
MaxArrivals == 2
MaxClock == 3
MaxCommands == 4
MaxDials == 3

\* ------------------------------------------------------- program constants
CodeAttempts == 5
LockTTLTicks == 2
maxReconnectAttempts == 5

\* ------------------------------------------------------------ input domains
Users == {"u1", "u2", "u3"}
Rooms == {"r1", "r2", "r3"}
Codes == {"CH-A", "CH-B"}
Procs == {1, 2, 3}
Instances == {"i1", "i2"}
GameIds == 1..MaxGames

VARIABLES
    games,      \* pvp:game:<id>        -> Game JSON
    gameIdx,    \* pvp:index:user:<id>  -> set of game ids
    now,        \* logical time.Now(), advanced by every game write
    chMeta,     \* ch:<code>            -> ChannelMeta JSON
    chParts,    \* ch:<code>:participants
    chRooms,    \* ch:<code>:rooms
    chUserIdx,  \* ch:index:user:<id>   -> set of codes
    chLobby,    \* ch:lobby
    proc,       \* handler goroutines: position and locals of the running call
    calls,      \* number of calls started so far
    lockVal,    \* bot:leader_lock value ("" when the key is absent)
    lockTTL,    \* remaining life of bot:leader_lock in refresh intervals
    inst,       \* bot instances: position in main and the refresh goroutine
    ticks,      \* refresh intervals elapsed
    saved,      \* durable store: per game, the SaveResult invocations and their outcome
    joinGames,  \* ids of the games that Join created
    clk,        \* wall clock in seconds
    dedupe,     \* dedupe:<room_id>:<sha1> keys -> second at which the key expires
    processed,  \* per instance: the processed map of the OnMessage callback
    senderCache,\* per instance: the senderCache map of the OnMessage callback
    cfgAllowed, \* cfg.AllowedRooms
    flog,       \* frames delivered to the callbacks, with what became of them
    answer,     \* the last command a handler answered: route and messages sent
    ws          \* the WebSocket of main and its goroutines

storeVars == <<games, gameIdx, now, saved, joinGames>>
chanVars == <<chMeta, chParts, chRooms, chUserIdx, chLobby>>
procVars == <<proc, calls>>
leaderVars == <<lockVal, lockTTL, inst, ticks>>
ingressVars == <<clk, dedupe, processed, senderCache, cfgAllowed, flog, ws>>
vars == <<games, gameIdx, now, chMeta, chParts, chRooms, chUserIdx, chLobby,
          proc, calls, lockVal, lockTTL, inst, ticks, saved, joinGames,
          clk, dedupe, processed, senderCache, cfgAllowed, flog, answer, ws>>

\* ===================================================== chess rules engine
\* The rules engine is the external library corentings/chess; the model keeps
\* what the match core uses of it: UCI decoding (syntactic), legality of a
\* move in a position, SAN encoding, side to move, and the outcome.
\* A position is the sequence of moves legally applied from the start.
QuietMoves == {"e2e4", "g1f3"}
MateMove == "d8h4"
DrawMove == "h7h8"
BogusMove == "e2e5"
UCIMoves == QuietMoves \cup {MateMove, DrawMove, BogusMove}

SanOf(uci) ==
    CASE uci = "e2e4" -> "e4"
      [] uci = "g1f3" -> "Nf3"
      [] uci = "d8h4" -> "Qh4#"
      [] uci = "h7h8" -> "Kh8"
      [] OTHER -> "e5"

SANMoves == {SanOf(m) : m \in UCIMoves \ {BogusMove}}

ToLower(s) ==
    CASE s = "Nf3" -> "nf3"
      [] s = "Qh4#" -> "qh4#"
      [] s = "Kh8" -> "kh8"
      [] OTHER -> s

Outcome(pos) ==
    IF pos = <<>> THEN "none"
    ELSE IF pos[Len(pos)] = MateMove
         THEN (IF Len(pos) % 2 = 1 THEN "WhiteWon" ELSE "BlackWon")
         ELSE IF pos[Len(pos)] = DrawMove THEN "Draw" ELSE "none"

LegalAt(pos, m) ==
    /\ Outcome(pos) = "none"
    /\ \/ m \in QuietMoves
       \/ m = MateMove
       \/ m = DrawMove /\ Len(pos) >= 1

UCIDecodes(s) == s \in UCIMoves

SANDecode(pos, s) ==
    LET c == {m \in UCIMoves : SanOf(m) = s /\ LegalAt(pos, m)}
    IN  IF c = {} THEN "" ELSE CHOOSE m \in c : TRUE

PosTurn(pos) == IF Len(pos) % 2 = 0 THEN "white" ELSE "black"

FENOf(pos) == <<"fen">> \o pos

Replayable(moves) ==
    \A i \in 1..Len(moves) : LegalAt(SubSeq(moves, 1, i - 1), moves[i])

\* ============================================================== match core
Terminal == {"FINISHED", "RESIGNED", "DRAW"}

TxtConcurrent == "concurrent command, retry"
TxtNotYourTurn == "not your turn"
TxtIllegal == "illegal move"
TxtBadInput == "bad input"
TxtMoved == "moved"
TxtResign == "resign"

NewGame(id, origin, resolve, white, black, t) ==
    [id |-> id, fen |-> <<"startpos">>, moves_uci |-> <<>>, moves_san |-> <<>>,
     turn |-> "white", status |-> "ACTIVE", white_id |-> white, black_id |-> black,
     origin_room |-> origin, resolve_room |-> resolve, updated_at |-> t,
     winner |-> "", outcome |-> ""]

NilGame == NewGame(0, "", "", "", "", 0)

opponentID_Self(g, user) == user

opponentID(g, user) ==
    IF g.white_id = user THEN g.black_id
    ELSE IF g.black_id = user THEN g.white_id ELSE ""

playerColor(g, user) ==
    IF g.white_id = user THEN "white"
    ELSE IF g.black_id = user THEN "black" ELSE ""

InRoom_Any(g, room) == TRUE

\* the game is bound to the room as origin or as resolve room
InRoom(g, room) == g.origin_room = room \/ g.resolve_room = room

ActiveInRoom(user, room) ==
    {id \in gameIdx[user] : /\ id \in DOMAIN games
                             /\ games[id].status = "ACTIVE"
                             /\ InRoom(games[id], room)}

\* the most recently updated ACTIVE game of the user in the room, 0 for none
GetActiveGameByUserInRoom(user, room) ==
    LET c == ActiveInRoom(user, room)
    IN  IF c = {} THEN 0
        ELSE CHOOSE id \in c : \A o \in c : games[o].updated_at <= games[id].updated_at

reconstruct(moves) == IF Replayable(moves) THEN [ok |-> TRUE, pos |-> moves]
                      ELSE [ok |-> FALSE, pos |-> <<>>]

\* ---------------------------------------------------------------- processes
NilMeta == [state |-> "", creator_id |-> "", creator_room |-> "",
            white_id |-> "", black_id |-> "", game_id |-> 0]

NoRet == [gid |-> 0, len |-> 0, status |-> "", text |-> "", err |-> "", started |-> FALSE]

IdleProc == [pc |-> "idle", op |-> "", user |-> "", room |-> "", code |-> "",
             move |-> "", pre |-> NilGame, g |-> NilGame, oldLen |-> 0, dirty |-> FALSE,
             cur |-> NilGame, meta |-> NilMeta, cnt |-> 0, tries |-> 0,
             committed |-> FALSE, second |-> FALSE, hLen |-> 0, ret |-> NoRet]

RetGame(g, text, err) ==
    [gid |-> g.id, len |-> Len(g.moves_uci), status |-> g.status,
     text |-> text, err |-> err, started |-> FALSE]

\* goroutines are interchangeable: a new call takes the lowest free slot
FreeSlot(p) ==
    /\ proc[p].pc = "idle"
    /\ \A q \in Procs : q < p => proc[q].pc # "idle"

\* a process that watches the key of game id (between WATCH and EXEC)
WatchesGame(q, id) ==
    /\ proc[q].pc \in {"pm_get", "pm_exec", "rs_get", "rs_exec"}
    /\ proc[q].g.id = id

\* a write to the key of game id by process p invalidates every other watch
TouchGame(p, id, new) ==
    [q \in Procs |->
        IF q = p THEN new
        ELSE IF WatchesGame(q, id) THEN [proc[q] EXCEPT !.dirty = TRUE]
        ELSE proc[q]]

ExecOk_NoWatch(dirty) == TRUE

\* EXEC of a watch transaction succeeds iff no watched key was modified
ExecOk(dirty) == ~dirty

\* ------------------------------------------- PlayMoveByRoom, body of the tx
IsActive_Unchecked(cur) == TRUE

IsActive(cur) == cur.status = "ACTIVE"

LenUnchanged_Unchecked(cur, oldLen) == TRUE

LenUnchanged(cur, oldLen) == Len(cur.moves_uci) = oldLen

IsTurnOf(cur, color) ==
    ~ \/ cur.turn = "white" /\ color # "white"
      \/ cur.turn = "black" /\ color # "black"

WithOutcome_Swapped(g, pos) ==
    CASE Outcome(pos) = "WhiteWon" ->
            [g EXCEPT !.status = "FINISHED", !.winner = g.black_id, !.outcome = "white"]
      [] Outcome(pos) = "BlackWon" ->
            [g EXCEPT !.status = "FINISHED", !.winner = g.white_id, !.outcome = "black"]
      [] Outcome(pos) = "Draw" ->
            [g EXCEPT !.status = "DRAW", !.outcome = "draw"]
      [] OTHER -> g

WithOutcome(g, pos) ==
    CASE Outcome(pos) = "WhiteWon" ->
            [g EXCEPT !.status = "FINISHED", !.winner = g.white_id, !.outcome = "white"]
      [] Outcome(pos) = "BlackWon" ->
            [g EXCEPT !.status = "FINISHED", !.winner = g.black_id, !.outcome = "black"]
      [] Outcome(pos) = "Draw" ->
            [g EXCEPT !.status = "DRAW", !.outcome = "draw"]
      [] OTHER -> g

Applied_NoSan(cur, uci, san, pos, t) ==
    WithOutcome([cur EXCEPT !.moves_uci = Append(cur.moves_uci, uci),
                            !.fen = FENOf(pos),
                            !.turn = PosTurn(pos),
                            !.updated_at = t], pos)

\* the game after a move was appended and the engine's position is pos
Applied(cur, uci, san, pos, t) ==
    WithOutcome([cur EXCEPT !.moves_uci = Append(cur.moves_uci, uci),
                            !.moves_san = Append(cur.moves_san, san),
                            !.fen = FENOf(pos),
                            !.turn = PosTurn(pos),
                            !.updated_at = t], pos)

MoveTxBody(cur, user, room, moveStr, oldLen, t) ==
    LET color == playerColor(cur, user)
        rc == reconstruct(cur.moves_uci)
        pos == rc.pos
        uci == ToLower(moveStr)
        sanMove == SANDecode(pos, moveStr)
        fail(k, txt) == [kind |-> k, text |-> txt, g |-> cur]
    IN  IF ~IsActive(cur) THEN fail("txfailed", "")
        ELSE IF ~LenUnchanged(cur, oldLen) THEN fail("txfailed", "")
        ELSE IF ~InRoom(cur, room) THEN fail("game not in room", "")
        ELSE IF color = "" THEN fail("user not in game", "")
        ELSE IF ~IsTurnOf(cur, color) THEN fail("not_your_turn", "")
        ELSE IF ~rc.ok THEN fail("failed to reconstruct game", "")
        ELSE IF uci = "" THEN fail("illegal_move", TxtBadInput)
        ELSE IF UCIDecodes(uci)
             THEN \* game.Move(mv, nil): the error of an illegal move is dropped
                  [kind |-> "commit", text |-> TxtMoved,
                   g |-> Applied(cur, uci, SanOf(uci),
                                 IF LegalAt(pos, uci) THEN Append(pos, uci) ELSE pos, t)]
             ELSE IF sanMove = "" THEN fail("illegal_move", TxtIllegal)
                  ELSE [kind |-> "commit", text |-> TxtMoved,
                        g |-> Applied(cur, sanMove, SanOf(sanMove), Append(pos, sanMove), t)]

\* what PlayMoveByRoom returns for an error of the watch call
MoveErrRet(g, kind, text) ==
    CASE kind = "txfailed" -> RetGame(g, TxtConcurrent, "nil")
      [] kind = "illegal_move" -> RetGame(g, IF text = "" THEN TxtIllegal ELSE text, "nil")
      [] kind = "not_your_turn" -> RetGame(g, TxtNotYourTurn, "nil")
      [] OTHER -> RetGame(NilGame, "", kind)

MoveInputs == {"e2e4", "Nf3", "d8h4", "Kh8", "e2e5", "invalid"}

\* the (user, room) pairs commands come from
CallSites == {<<"u1", "r1">>, <<"u1", "r2">>, <<"u2", "r2">>, <<"u3", "r3">>}

\* the call begins with GetActiveGameByUserInRoom; a nil game returns at once
PM_Lookup(p) ==
    /\ FreeSlot(p)
    /\ calls < MaxCalls
    /\ \E cs \in CallSites, m \in MoveInputs :
          LET u == cs[1]
              r == cs[2]
              id == GetActiveGameByUserInRoom(u, r)
              me == [IdleProc EXCEPT !.op = "move", !.user = u, !.room = r, !.move = m]
          IN  proc' = [proc EXCEPT ![p] =
                    IF id = 0
                    THEN [me EXCEPT !.pc = "done", !.ret = RetGame(NilGame, "", "nil")]
                    ELSE [me EXCEPT !.pc = "pm_watch", !.pre = games[id], !.g = games[id],
                                    !.oldLen = Len(games[id].moves_uci)]]
    /\ calls' = calls + 1
    /\ UNCHANGED <<storeVars, chanVars, leaderVars, ingressVars, answer>>

PM_Watch(p) ==
    /\ proc[p].pc = "pm_watch"
    /\ proc' = [proc EXCEPT ![p] = [@ EXCEPT !.pc = "pm_get", !.dirty = FALSE,
                                             !.tries = @ + 1]]
    /\ UNCHANGED <<storeVars, chanVars, leaderVars, ingressVars, answer, calls>>

PM_Get(p) ==
    /\ proc[p].pc = "pm_get"
    /\ LET me == proc[p]
           r == MoveTxBody(games[me.g.id], me.user, me.room, me.move, me.oldLen, now)
       IN  proc' = [proc EXCEPT ![p] =
              IF r.kind = "commit"
              THEN [@ EXCEPT !.pc = "pm_exec", !.cur = r.g]
              ELSE [@ EXCEPT !.pc = "done", !.ret = MoveErrRet(me.g, r.kind, r.text)]]
    /\ UNCHANGED <<storeVars, chanVars, leaderVars, ingressVars, answer, calls>>

PM_Exec(p) ==
    /\ proc[p].pc = "pm_exec"
    /\ LET me == proc[p]
       IN  IF ExecOk(me.dirty)
           THEN /\ games' = [games EXCEPT ![me.g.id] = me.cur]
                /\ now' = now + 1
                /\ proc' = TouchGame(p, me.g.id,
                              [me EXCEPT !.pc = "pm_persist", !.g = me.cur,
                                         !.committed = TRUE,
                                         !.ret = RetGame(me.cur, TxtMoved, "nil")])
           ELSE /\ proc' = [proc EXCEPT ![p] =
                              [@ EXCEPT !.pc = "done",
                                        !.ret = MoveErrRet(me.g, "txfailed", "")]]
                /\ UNCHANGED <<games, now>>
    /\ UNCHANGED <<gameIdx, saved, joinGames, chanVars, leaderVars, ingressVars, answer, calls>>

persistIfFinal_Never(g, method, ok) == saved

\* persistIfFinal: SaveResult is invoked for a terminal game; it may fail, and
\* the error is logged and dropped by the callers
persistIfFinal(g, method, ok) ==
    IF g.status \in Terminal
    THEN [saved EXCEPT ![g.id] = Append(@, [method |-> method, ok |-> ok])]
    ELSE saved

PM_Persist(p) ==
    /\ proc[p].pc = "pm_persist"
    /\ \E ok \in BOOLEAN :
          saved' = IF proc[p].g.status = "FINISHED" THEN persistIfFinal(proc[p].g, "checkmate", ok)
                   ELSE IF proc[p].g.status = "DRAW" THEN persistIfFinal(proc[p].g, "draw", ok)
                   ELSE saved
    /\ proc' = [proc EXCEPT ![p] = [@ EXCEPT !.pc = "done"]]
    /\ UNCHANGED <<games, gameIdx, now, joinGames, chanVars, leaderVars, ingressVars, answer, calls>>

\* --------------------------------------------------------------- ResignByRoom
ResignTxBody(cur, user, room, t) ==
    IF ~IsActive(cur) THEN [kind |-> "txfailed", g |-> cur]
    ELSE IF ~InRoom(cur, room) THEN [kind |-> "game not in room", g |-> cur]
    ELSE [kind |-> "commit",
          g |-> [cur EXCEPT !.status = "RESIGNED", !.winner = opponentID(cur, user),
                            !.outcome = "resign", !.updated_at = t]]

ResignErrRet(kind) ==
    IF kind = "txfailed" THEN RetGame(NilGame, "", "game no longer active")
    ELSE RetGame(NilGame, "", kind)

RS_Lookup(p) ==
    /\ FreeSlot(p)
    /\ calls < MaxCalls
    /\ \E cs \in CallSites :
          LET u == cs[1]
              r == cs[2]
              id == GetActiveGameByUserInRoom(u, r)
              me == [IdleProc EXCEPT !.op = "resign", !.user = u, !.room = r]
          IN  proc' = [proc EXCEPT ![p] =
                    IF id = 0
                    THEN [me EXCEPT !.pc = "done", !.ret = RetGame(NilGame, "", "nil")]
                    ELSE [me EXCEPT !.pc = "rs_watch", !.pre = games[id], !.g = games[id],
                                    !.oldLen = Len(games[id].moves_uci)]]
    /\ calls' = calls + 1
    /\ UNCHANGED <<storeVars, chanVars, leaderVars, ingressVars, answer>>

RS_Watch(p) ==
    /\ proc[p].pc = "rs_watch"
    /\ proc' = [proc EXCEPT ![p] = [@ EXCEPT !.pc = "rs_get", !.dirty = FALSE,
                                             !.tries = @ + 1]]
    /\ UNCHANGED <<storeVars, chanVars, leaderVars, ingressVars, answer, calls>>

RS_Get(p) ==
    /\ proc[p].pc = "rs_get"
    /\ LET me == proc[p]
           r == ResignTxBody(games[me.g.id], me.user, me.room, now)
       IN  proc' = [proc EXCEPT ![p] =
              IF r.kind = "commit"
              THEN [@ EXCEPT !.pc = "rs_exec", !.cur = r.g]
              ELSE [@ EXCEPT !.pc = "done", !.cur = r.g, !.ret = ResignErrRet(r.kind)]]
    /\ UNCHANGED <<storeVars, chanVars, leaderVars, ingressVars, answer, calls>>

RS_Exec(p) ==
    /\ proc[p].pc = "rs_exec"
    /\ LET me == proc[p]
       IN  IF ExecOk(me.dirty)
           THEN /\ games' = [games EXCEPT ![me.g.id] = me.cur]
                /\ now' = now + 1
                /\ proc' = TouchGame(p, me.g.id,
                              [me EXCEPT !.pc = "rs_persist", !.g = me.cur,
                                         !.committed = TRUE,
                                         !.ret = RetGame(me.cur, TxtResign, "nil")])
           ELSE /\ proc' = [proc EXCEPT ![p] =
                              [@ EXCEPT !.pc = "done", !.ret = ResignErrRet("txfailed")]]
                /\ UNCHANGED <<games, now>>
    /\ UNCHANGED <<gameIdx, saved, joinGames, chanVars, leaderVars, ingressVars, answer, calls>>

RS_Persist(p) ==
    /\ proc[p].pc = "rs_persist"
    /\ \E ok \in BOOLEAN : saved' = persistIfFinal(proc[p].g, "resignation", ok)
    /\ proc' = [proc EXCEPT ![p] = [@ EXCEPT !.pc = "done"]]
    /\ UNCHANGED <<games, gameIdx, now, joinGames, chanVars, leaderVars, ingressVars, answer, calls>>

\* a finished call frees its goroutine slot
Return(p) ==
    /\ proc[p].pc = "done"
    /\ calls < MaxCalls
    /\ proc' = [proc EXCEPT ![p] = IdleProc]
    /\ UNCHANGED <<storeVars, chanVars, leaderVars, ingressVars, answer, calls>>

\* ------------------------------------------------- CreateGameFromChallenge
\* colour assignment: "white"/"w" keeps the challenger white, "black"/"b"
\* swaps, anything else flips a coin (coin = 0 swaps)
AssignColors(challenger, target, colorChoice, coin) ==
    CASE colorChoice \in {"white", "w"} -> [white |-> challenger, black |-> target]
      [] colorChoice \in {"black", "b"} -> [white |-> target, black |-> challenger]
      [] OTHER -> IF coin = 0 THEN [white |-> target, black |-> challenger]
                  ELSE [white |-> challenger, black |-> target]

NextGameId == Cardinality(DOMAIN games) + 1

\* the games the match-core specification starts: origin room, resolve room,
\* challenger and target of the n-th CreateGameFromChallenge call (the second
\* game shares user u1, and possibly room r1, with the first)
GameSetups(n) ==
    IF n = 1 THEN {<<"r1", "r2", "u1", "u2">>}
    ELSE {<<"r1", "r3", "u1", "u3">>}

\* the test suites call CreateGameFromChallenge directly: save, then index;
\* the match-core specification creates its games before the first command
CreateGameFromChallenge ==
    /\ NextGameId <= MaxGames
    /\ calls = 0
    /\ \E su \in GameSetups(NextGameId), cc \in {"white", "black", "random"}, coin \in {0, 1} :
          LET col == AssignColors(su[3], su[4], cc, coin)
              id == NextGameId
          IN  /\ games' = games @@ (id :> NewGame(id, su[1], su[2], col.white, col.black, now))
              /\ gameIdx' = [u \in Users |->
                               IF u \in {col.white, col.black} THEN gameIdx[u] \cup {id}
                               ELSE gameIdx[u]]
    /\ now' = now + 1
    /\ UNCHANGED <<saved, joinGames, chanVars, procVars, leaderVars, ingressVars, answer>>

\* ------------------------------------------------------------------- initial
InitStore ==
    /\ games = <<>>
    /\ gameIdx = [u \in Users |-> {}]
    /\ now = 1
    /\ saved = [id \in GameIds |-> <<>>]
    /\ joinGames = {}

InitChan ==
    /\ chMeta = <<>>
    /\ chParts = [c \in Codes |-> {}]
    /\ chRooms = [c \in Codes |-> {}]
    /\ chUserIdx = [u \in Users |-> {}]
    /\ chLobby = {}

InitProcs ==
    /\ proc = [p \in Procs |-> IdleProc]
    /\ calls = 0

\* a process that has not yet reached the leader lock block: main position,
\* frames handled, state of the refresh goroutine, a tick waiting in the ticker
\* channel, result of its SetNX, and whether its deferred release ran Del
NewInstance ==
    [pc |-> "start", handled |-> 0, ref |-> "none", pending |-> FALSE,
     setnx |-> "none", released |-> FALSE]

InitLeader ==
    /\ lockVal = ""
    /\ lockTTL = 0
    /\ inst = [i \in Instances |-> NewInstance]
    /\ ticks = 0

\* NewWebSocket: disconnected, no connection, no goroutine; main has not yet
\* called Connect. late says that a dial was started after Close.
NewWebSocket ==
    [main |-> "start", state |-> "disconnected", conn |-> FALSE, stopped |-> FALSE,
     listens |-> 0, pings |-> [c \in {0, 1} |-> 0],
     wait |-> [k \in 1..maxReconnectAttempts |-> 0],
     dial |-> [k \in 1..maxReconnectAttempts |-> 0],
     dials |-> 0, late |-> FALSE]

\* the maps of main are empty, and so is cfg.AllowedRooms until the
\* configuration is loaded
InitIngress ==
    /\ ws = NewWebSocket
    /\ clk = 0
    /\ dedupe = <<>>
    /\ processed = [i \in Instances |-> <<>>]
    /\ senderCache = [i \in Instances |-> <<>>]
    /\ cfgAllowed = {}
    /\ flog = <<>>

\* no command has been answered yet
InitHandler ==
    answer = [seq |-> 0, cmd |-> "", user |-> "", room |-> "", found |-> 0, route |-> "",
              legacy |-> "", gid |-> 0, committed |-> FALSE, rooms |-> <<>>, sends |-> <<>>]

Init == InitStore /\ InitChan /\ InitProcs /\ InitLeader /\ InitIngress /\ InitHandler

\* ------------------------------------------------- match core specification
GameProcs == {1, 2}

NextGame ==
    \/ CreateGameFromChallenge
    \/ \E p \in GameProcs : PM_Lookup(p)
    \/ \E p \in GameProcs : PM_Watch(p)
    \/ \E p \in GameProcs : PM_Get(p)
    \/ \E p \in GameProcs : PM_Exec(p)
    \/ \E p \in GameProcs : PM_Persist(p)
    \/ \E p \in GameProcs : RS_Lookup(p)
    \/ \E p \in GameProcs : RS_Watch(p)
    \/ \E p \in GameProcs : RS_Get(p)
    \/ \E p \in GameProcs : RS_Exec(p)
    \/ \E p \in GameProcs : RS_Persist(p)
    \/ \E p \in GameProcs : Return(p)

SpecGame == Init /\ [][NextGame]_vars

\* ============================================================ channel lobby
ErrPlayerBusyInRoom == "player has active game in this room"
ErrCreatorHasLobby == "user already has a lobby"
ErrChannelGone == "channel not found or expired"
ErrChannelActive == "channel already active"
ErrFull == "channel already has two participants"
ErrTxFailed == "redis: transaction failed"
ErrAllocate == "failed to allocate channel code"

\* the value SetNX stores, "{}", unmarshals to a ChannelMeta of zero values
EmptyMeta == NilMeta

LobbyMeta(user, room) ==
    [state |-> "LOBBY", creator_id |-> user, creator_room |-> room,
     white_id |-> "", black_id |-> "", game_id |-> 0]

RetErr(err) == [NoRet EXCEPT !.err = err]

\* a process between WATCH and EXEC on ch:<code>:participants
WatchesParts(q, code) ==
    /\ proc[q].pc \in {"jn_scard", "jn_exec"}
    /\ proc[q].code = code

\* a command of process p that modified ch:<code>:participants (SADD of a new
\* member, EXPIRE of the existing key) invalidates every other watch on it
TouchParts(p, code, touched, new) ==
    [q \in Procs |->
        IF q = p THEN new
        ELSE IF touched /\ WatchesParts(q, code) THEN [proc[q] EXCEPT !.dirty = TRUE]
        ELSE proc[q]]

\* the user already created a channel that is still in LOBBY
HasLobby(user) ==
    \E c \in chUserIdx[user] :
        /\ c \in DOMAIN chMeta
        /\ chMeta[c].state = "LOBBY"
        /\ chMeta[c].creator_id = user

MakeSites == {<<"u1", "r1">>, <<"u1", "r2">>}

\* Make, first read: the creator must not have an ACTIVE game in the room
MK_Busy(p) ==
    /\ FreeSlot(p)
    /\ calls < MaxLobbyCalls
    /\ \E cs \in MakeSites :
          LET me == [IdleProc EXCEPT !.op = "make", !.user = cs[1], !.room = cs[2]]
          IN  proc' = [proc EXCEPT ![p] =
                 IF GetActiveGameByUserInRoom(cs[1], cs[2]) # 0
                 THEN [me EXCEPT !.pc = "done", !.ret = RetErr(ErrPlayerBusyInRoom)]
                 ELSE [me EXCEPT !.pc = "mk_lobbychk"]]
    /\ calls' = calls + 1
    /\ UNCHANGED <<storeVars, chanVars, leaderVars, ingressVars, answer>>

MK_LobbyCheck(p) ==
    /\ proc[p].pc = "mk_lobbychk"
    /\ proc' = [proc EXCEPT ![p] =
          IF HasLobby(proc[p].user)
          THEN [@ EXCEPT !.pc = "done", !.ret = RetErr(ErrCreatorHasLobby)]
          ELSE [@ EXCEPT !.pc = "mk_setnx", !.tries = 0]]
    /\ UNCHANGED <<storeVars, chanVars, leaderVars, ingressVars, answer, calls>>

\* one iteration of the allocation loop: codeGen, then SetNX of "{}"
MK_SetNX(p) ==
    /\ proc[p].pc = "mk_setnx"
    /\ IF proc[p].tries >= CodeAttempts
       THEN /\ proc' = [proc EXCEPT ![p] = [@ EXCEPT !.pc = "done", !.ret = RetErr(ErrAllocate)]]
            /\ UNCHANGED chMeta
       ELSE \E c \in Codes :
              IF c \in DOMAIN chMeta
              THEN /\ proc' = [proc EXCEPT ![p] = [@ EXCEPT !.tries = @ + 1]]
                   /\ UNCHANGED chMeta
              ELSE /\ chMeta' = chMeta @@ (c :> EmptyMeta)
                   /\ proc' = [proc EXCEPT ![p] = [@ EXCEPT !.pc = "mk_save", !.code = c]]
    /\ UNCHANGED <<storeVars, chParts, chRooms, chUserIdx, chLobby, leaderVars, ingressVars, answer, calls>>

\* SaveMeta: SET of the meta, EXPIRE of the rooms and participants keys
MK_SaveMeta(p) ==
    /\ proc[p].pc = "mk_save"
    /\ LET c == proc[p].code
       IN  /\ chMeta' = [chMeta EXCEPT ![c] = LobbyMeta(proc[p].user, proc[p].room)]
           /\ proc' = TouchParts(p, c, chParts[c] # {}, [proc[p] EXCEPT !.pc = "mk_room"])
    /\ UNCHANGED <<storeVars, chParts, chRooms, chUserIdx, chLobby, leaderVars, ingressVars, answer, calls>>

MK_AddRoom(p) ==
    /\ proc[p].pc = "mk_room"
    /\ chRooms' = [chRooms EXCEPT ![proc[p].code] = @ \cup {proc[p].room}]
    /\ proc' = [proc EXCEPT ![p] = [@ EXCEPT !.pc = "mk_part"]]
    /\ UNCHANGED <<storeVars, chMeta, chParts, chUserIdx, chLobby, leaderVars, ingressVars, answer, calls>>

\* AddParticipant: unconditional SADD to the participants set, then the
\* creator's channel index
MK_AddParticipant(p) ==
    /\ proc[p].pc = "mk_part"
    /\ LET c == proc[p].code
       IN  /\ chParts' = [chParts EXCEPT ![c] = @ \cup {proc[p].user}]
           /\ chUserIdx' = [chUserIdx EXCEPT ![proc[p].user] = @ \cup {c}]
           /\ proc' = TouchParts(p, c, TRUE, [proc[p] EXCEPT !.pc = "mk_lobby"])
    /\ UNCHANGED <<storeVars, chMeta, chRooms, chLobby, leaderVars, ingressVars, answer, calls>>

MK_AddLobby(p) ==
    /\ proc[p].pc = "mk_lobby"
    /\ chLobby' = chLobby \cup {proc[p].code}
    /\ proc' = [proc EXCEPT ![p] = [@ EXCEPT !.pc = "done", !.ret = RetErr("nil")]]
    /\ UNCHANGED <<storeVars, chMeta, chParts, chRooms, chUserIdx, leaderVars, ingressVars, answer, calls>>

\* ---------------------------------------------------------------------- Join
JoinSites == {<<"u1", "r1">>, <<"u2", "r2">>, <<"u3", "r3">>}

JN_Load(p) ==
    /\ FreeSlot(p)
    /\ calls < MaxLobbyCalls
    /\ \E cs \in JoinSites, c \in Codes :
          LET me == [IdleProc EXCEPT !.op = "join", !.user = cs[1], !.room = cs[2], !.code = c]
          IN  proc' = [proc EXCEPT ![p] =
                 IF c \notin DOMAIN chMeta
                 THEN [me EXCEPT !.pc = "done", !.ret = RetErr(ErrChannelGone)]
                 ELSE IF chMeta[c].state # "LOBBY"
                      THEN [me EXCEPT !.pc = "done", !.ret = RetErr(ErrChannelActive)]
                      ELSE [me EXCEPT !.pc = "jn_watch", !.meta = chMeta[c]]]
    /\ calls' = calls + 1
    /\ UNCHANGED <<storeVars, chanVars, leaderVars, ingressVars, answer>>

JN_Watch(p) ==
    /\ proc[p].pc = "jn_watch"
    /\ proc' = [proc EXCEPT ![p] = [@ EXCEPT !.pc = "jn_scard", !.dirty = FALSE]]
    /\ UNCHANGED <<storeVars, chanVars, leaderVars, ingressVars, answer, calls>>

IsFull_Three(cnt) == cnt >= 3

IsFull(cnt) == cnt >= 2

JN_SCard(p) ==
    /\ proc[p].pc = "jn_scard"
    /\ LET cnt == Cardinality(chParts[proc[p].code])
       IN  proc' = [proc EXCEPT ![p] =
              IF IsFull(cnt)
              THEN [@ EXCEPT !.pc = "done", !.ret = RetErr(ErrFull)]
              ELSE [@ EXCEPT !.pc = "jn_exec", !.cnt = cnt]]
    /\ UNCHANGED <<storeVars, chanVars, leaderVars, ingressVars, answer, calls>>

\* EXEC of the pipeline: SADD participants, SADD rooms, SADD user index
JN_Exec(p) ==
    /\ proc[p].pc = "jn_exec"
    /\ LET me == proc[p]
           c == me.code
       IN  IF ExecOk(me.dirty)
           THEN /\ chParts' = [chParts EXCEPT ![c] = @ \cup {me.user}]
                /\ chRooms' = [chRooms EXCEPT ![c] = @ \cup {me.room}]
                /\ chUserIdx' = [chUserIdx EXCEPT ![me.user] = @ \cup {c}]
                /\ proc' = TouchParts(p, c, TRUE,
                              [me EXCEPT !.pc = "jn_reload", !.committed = TRUE,
                                         !.second = /\ Cardinality(chParts[c]) = 1
                                                    /\ me.user \notin chParts[c]
                                                    /\ chMeta[c].state = "LOBBY"])
           ELSE /\ proc' = [proc EXCEPT ![p] =
                              [@ EXCEPT !.pc = "done", !.ret = RetErr(ErrTxFailed)]]
                /\ UNCHANGED <<chParts, chRooms, chUserIdx>>
    /\ UNCHANGED <<storeVars, chMeta, chLobby, leaderVars, ingressVars, answer, calls>>

\* AddRoom (the room is already in the set) and the second LoadMeta
JN_Reload(p) ==
    /\ proc[p].pc = "jn_reload"
    /\ chRooms' = [chRooms EXCEPT ![proc[p].code] = @ \cup {proc[p].room}]
    /\ proc' = [proc EXCEPT ![p] = [@ EXCEPT !.pc = "jn_count", !.meta = chMeta[proc[p].code]]]
    /\ UNCHANGED <<storeVars, chMeta, chParts, chUserIdx, chLobby, leaderVars, ingressVars, answer, calls>>

\* ParticipantCount: fewer than two members, or a game already bound: queued
JN_Count(p) ==
    /\ proc[p].pc = "jn_count"
    /\ LET cnt == Cardinality(chParts[proc[p].code])
       IN  proc' = [proc EXCEPT ![p] =
              IF cnt < 2 \/ proc[p].meta.game_id # 0
              THEN [@ EXCEPT !.pc = "done", !.cnt = cnt,
                             !.ret = [RetErr("nil") EXCEPT !.gid = proc[p].meta.game_id]]
              ELSE [@ EXCEPT !.pc = "jn_busy1", !.cnt = cnt]]
    /\ UNCHANGED <<storeVars, chanVars, leaderVars, ingressVars, answer, calls>>

JN_BusyJoiner(p) ==
    /\ proc[p].pc = "jn_busy1"
    /\ proc' = [proc EXCEPT ![p] =
          IF GetActiveGameByUserInRoom(proc[p].user, proc[p].room) # 0
          THEN [@ EXCEPT !.pc = "done", !.ret = RetErr(ErrPlayerBusyInRoom)]
          ELSE [@ EXCEPT !.pc = "jn_busy2"]]
    /\ UNCHANGED <<storeVars, chanVars, leaderVars, ingressVars, answer, calls>>

JN_BusyCreator(p) ==
    /\ proc[p].pc = "jn_busy2"
    /\ proc' = [proc EXCEPT ![p] =
          IF GetActiveGameByUserInRoom(proc[p].meta.creator_id, proc[p].meta.creator_room) # 0
          THEN [@ EXCEPT !.pc = "done", !.ret = RetErr(ErrPlayerBusyInRoom)]
          ELSE [@ EXCEPT !.pc = "jn_create"]]
    /\ UNCHANGED <<storeVars, chanVars, leaderVars, ingressVars, answer, calls>>

\* the colour preferences a caller can pass to Make and Join
ColorChoices == {"white", "black", "random"}

JoinColorChoice_Pref(pref) == pref

\* Join discards its preference: colorChoice := string(ColorRandom)
JoinColorChoice(pref) == "random"

\* CreateGameFromChallenge(creator_room, room, creator, joiner, colorChoice): save
JN_CreateWith(p, pref) ==
    /\ proc[p].pc = "jn_create"
    /\ NextGameId <= MaxGames
    /\ \E coin \in {0, 1} :
          LET me == proc[p]
              col == AssignColors(me.meta.creator_id, me.user, JoinColorChoice(pref), coin)
              id == NextGameId
              g == NewGame(id, me.meta.creator_room, me.room, col.white, col.black, now)
          IN  /\ games' = games @@ (id :> g)
              /\ proc' = [proc EXCEPT ![p] = [@ EXCEPT !.pc = "jn_index", !.g = g]]
              /\ joinGames' = joinGames \cup {id}
    /\ now' = now + 1
    /\ UNCHANGED <<gameIdx, saved, chanVars, leaderVars, ingressVars, answer, calls>>

JN_Create(p) == \E pref \in ColorChoices : JN_CreateWith(p, pref)

\* indexParticipants: the game id enters both players' index sets
JN_Index(p) ==
    /\ proc[p].pc = "jn_index"
    /\ LET g == proc[p].g
       IN  gameIdx' = [u \in Users |->
                          IF u \in {g.white_id, g.black_id} THEN gameIdx[u] \cup {g.id}
                          ELSE gameIdx[u]]
    /\ proc' = [proc EXCEPT ![p] = [@ EXCEPT !.pc = "jn_save"]]
    /\ UNCHANGED <<games, now, saved, joinGames, chanVars, leaderVars, ingressVars, answer, calls>>

\* SaveMeta of the local meta with the colours, the game id and state ACTIVE
JN_SaveMeta(p) ==
    /\ proc[p].pc = "jn_save"
    /\ LET me == proc[p]
           c == me.code
           m == [me.meta EXCEPT !.white_id = me.g.white_id, !.black_id = me.g.black_id,
                                !.state = "ACTIVE", !.game_id = me.g.id]
       IN  /\ chMeta' = [chMeta EXCEPT ![c] = m]
           /\ proc' = TouchParts(p, c, chParts[c] # {},
                                 [me EXCEPT !.pc = "jn_rmlobby", !.meta = m])
    /\ UNCHANGED <<storeVars, chParts, chRooms, chUserIdx, chLobby, leaderVars, ingressVars, answer, calls>>

JN_RemoveLobby(p) ==
    /\ proc[p].pc = "jn_rmlobby"
    /\ chLobby' = chLobby \ {proc[p].code}
    /\ proc' = [proc EXCEPT ![p] =
          [@ EXCEPT !.pc = "done",
                    !.ret = [RetErr("nil") EXCEPT !.gid = proc[p].g.id, !.started = TRUE]]]
    /\ UNCHANGED <<storeVars, chMeta, chParts, chRooms, chUserIdx, leaderVars, ingressVars, answer, calls>>

\* a game that exists before the first lobby command: another user's game in
\* room r2 with u2 (as TestJoinBlockedIfUserActiveInSameRoom sets up)
LobbySetup ==
    /\ calls = 0
    /\ games = <<>>
    /\ LET col == AssignColors("u3", "u2", "white", 0)
       IN  /\ games' = (1 :> NewGame(1, "r3", "r2", col.white, col.black, now))
           /\ gameIdx' = [u \in Users |->
                            IF u \in {"u2", "u3"} THEN gameIdx[u] \cup {1} ELSE gameIdx[u]]
    /\ now' = now + 1
    /\ UNCHANGED <<saved, joinGames, chanVars, procVars, leaderVars, ingressVars, answer>>

LobbyReturn(p) ==
    /\ proc[p].pc = "done"
    /\ calls < MaxLobbyCalls
    /\ proc' = [proc EXCEPT ![p] = IdleProc]
    /\ UNCHANGED <<storeVars, chanVars, leaderVars, ingressVars, answer, calls>>

NextLobby ==
    \/ LobbySetup
    \/ \E p \in Procs : MK_Busy(p)
    \/ \E p \in Procs : MK_LobbyCheck(p)
    \/ \E p \in Procs : MK_SetNX(p)
    \/ \E p \in Procs : MK_SaveMeta(p)
    \/ \E p \in Procs : MK_AddRoom(p)
    \/ \E p \in Procs : MK_AddParticipant(p)
    \/ \E p \in Procs : MK_AddLobby(p)
    \/ \E p \in Procs : JN_Load(p)
    \/ \E p \in Procs : JN_Watch(p)
    \/ \E p \in Procs : JN_SCard(p)
    \/ \E p \in Procs : JN_Exec(p)
    \/ \E p \in Procs : JN_Reload(p)
    \/ \E p \in Procs : JN_Count(p)
    \/ \E p \in Procs : JN_BusyJoiner(p)
    \/ \E p \in Procs : JN_BusyCreator(p)
    \/ \E p \in Procs : JN_Create(p)
    \/ \E p \in Procs : JN_Index(p)
    \/ \E p \in Procs : JN_SaveMeta(p)
    \/ \E p \in Procs : JN_RemoveLobby(p)
    \/ \E p \in Procs : LobbyReturn(p)

SpecLobby == Init /\ [][NextLobby]_vars

\* the same commands issued by two of the processes only
PairProcs == {1, 2}

NextLobbyPair ==
    \/ LobbySetup
    \/ \E p \in PairProcs : MK_Busy(p)
    \/ \E p \in PairProcs : MK_LobbyCheck(p)
    \/ \E p \in PairProcs : MK_SetNX(p)
    \/ \E p \in PairProcs : MK_SaveMeta(p)
    \/ \E p \in PairProcs : MK_AddRoom(p)
    \/ \E p \in PairProcs : MK_AddParticipant(p)
    \/ \E p \in PairProcs : MK_AddLobby(p)
    \/ \E p \in PairProcs : JN_Load(p)
    \/ \E p \in PairProcs : JN_Watch(p)
    \/ \E p \in PairProcs : JN_SCard(p)
    \/ \E p \in PairProcs : JN_Exec(p)
    \/ \E p \in PairProcs : JN_Reload(p)
    \/ \E p \in PairProcs : JN_Count(p)
    \/ \E p \in PairProcs : JN_BusyJoiner(p)
    \/ \E p \in PairProcs : JN_BusyCreator(p)
    \/ \E p \in PairProcs : JN_Create(p)
    \/ \E p \in PairProcs : JN_Index(p)
    \/ \E p \in PairProcs : JN_SaveMeta(p)
    \/ \E p \in PairProcs : JN_RemoveLobby(p)
    \/ \E p \in PairProcs : LobbyReturn(p)

SpecLobbyPair == Init /\ [][NextLobbyPair]_vars

\* --------------------------------------------------- leader lock of main
\* One step of time is the 10 s refresh interval; the lock TTL of 20 s is
\* LockTTLTicks steps.  A process that is in state "start" may run its SetNX at
\* any later moment, so instances start at arbitrary times.

\* SET key value NX: succeeds only when the key is absent
SetNXOk_Always(val) == TRUE

SetNXOk(val) == val = ""

\* the refresh goroutine and the deferred release exist once SetNX succeeded
Running(i) == inst[i].pc \in {"acquired", "serving", "closing", "releasing"}

\* the handler is registered and the websocket connected: frames are handled
Serving(i) == inst[i].pc = "serving"

Exited(i) == [inst[i] EXCEPT !.pc = "exited", !.ref = "none", !.pending = FALSE]

\* SetNX(lockKey, instanceID, 20 s): the winner starts the refresh goroutine,
\* the loser logs leader_already_running and returns from main
Acquire(i) ==
    /\ inst[i].pc = "start"
    /\ IF SetNXOk(lockVal)
       THEN /\ lockVal' = i
            /\ lockTTL' = LockTTLTicks
            /\ inst' = [inst EXCEPT ![i] =
                  [@ EXCEPT !.pc = "acquired", !.ref = "wait", !.setnx = "ok"]]
       ELSE /\ inst' = [inst EXCEPT ![i] = [Exited(i) EXCEPT !.setnx = "taken"]]
            /\ UNCHANGED <<lockVal, lockTTL>>
    /\ UNCHANGED <<storeVars, chanVars, procVars, ingressVars, answer, ticks>>

\* SetNX returns an error: logger.Fatal ends the process
AcquireError(i) ==
    /\ inst[i].pc = "start"
    /\ inst' = [inst EXCEPT ![i] = [Exited(i) EXCEPT !.setnx = "err"]]
    /\ UNCHANGED <<storeVars, chanVars, procVars, ingressVars, answer, lockVal, lockTTL, ticks>>

\* ws.OnMessage and ws.Connect succeed
Register(i) ==
    /\ inst[i].pc = "acquired"
    /\ inst' = [inst EXCEPT ![i] = [@ EXCEPT !.pc = "serving"]]
    /\ UNCHANGED <<storeVars, chanVars, procVars, ingressVars, answer, lockVal, lockTTL, ticks>>

\* ws.Connect fails: logger.Fatal ends the process, the deferred release does
\* not run and the lock stays until its TTL ends
ConnectError(i) ==
    /\ inst[i].pc = "acquired"
    /\ inst' = [inst EXCEPT ![i] = Exited(i)]
    /\ UNCHANGED <<storeVars, chanVars, procVars, ingressVars, answer, lockVal, lockTTL, ticks>>

\* the OnMessage callback runs for one ingress frame
HandleFrame(i) ==
    /\ Serving(i)
    /\ inst[i].handled < MaxFrames
    /\ inst' = [inst EXCEPT ![i] = [@ EXCEPT !.handled = @ + 1]]
    /\ UNCHANGED <<storeVars, chanVars, procVars, ingressVars, answer, lockVal, lockTTL, ticks>>

\* 10 s pass: the key loses one step of TTL and is removed at zero; every
\* ticker fires.  A goroutine waiting on the ticker starts its Get before the
\* next interval ends; one that is between Get and Expire finds the tick in
\* the ticker channel afterwards.
Advance ==
    /\ ticks < MaxTicks
    /\ \A i \in Instances : inst[i].ref # "due"
    /\ ticks' = ticks + 1
    /\ lockTTL' = IF lockTTL > 0 THEN lockTTL - 1 ELSE 0
    /\ lockVal' = IF lockTTL <= 1 THEN "" ELSE lockVal
    /\ inst' = [i \in Instances |->
                  IF inst[i].ref = "wait" THEN [inst[i] EXCEPT !.ref = "due"]
                  ELSE IF inst[i].ref = "expire" THEN [inst[i] EXCEPT !.pending = TRUE]
                  ELSE inst[i]]
    /\ UNCHANGED <<storeVars, chanVars, procVars, ingressVars, answer>>

RefreshGet_KeepOnNil(i) ==
    /\ inst[i].ref = "due"
    /\ inst' = [inst EXCEPT ![i] =
          IF lockVal \in {i, ""} THEN [@ EXCEPT !.ref = "expire"] ELSE Exited(i)]
    /\ UNCHANGED <<storeVars, chanVars, procVars, ingressVars, answer, lockVal, lockTTL, ticks>>

\* Get(lockKey) of the refresh loop succeeds: redis.Nil or another value ends
\* the process with os.Exit(0), the own value leads to Expire
RefreshGet(i) ==
    /\ inst[i].ref = "due"
    /\ inst' = [inst EXCEPT ![i] =
          IF lockVal = i THEN [@ EXCEPT !.ref = "expire"] ELSE Exited(i)]
    /\ UNCHANGED <<storeVars, chanVars, procVars, ingressVars, answer, lockVal, lockTTL, ticks>>

\* Get(lockKey) of the refresh loop fails with another error: continue
RefreshGetError(i) ==
    /\ inst[i].ref = "due"
    /\ inst' = [inst EXCEPT ![i] = [@ EXCEPT !.ref = "wait"]]
    /\ UNCHANGED <<storeVars, chanVars, procVars, ingressVars, answer, lockVal, lockTTL, ticks>>

\* Expire(lockKey, 20 s) with no check of the value; its error is dropped
RefreshExpire(i) ==
    /\ inst[i].ref = "expire"
    /\ lockTTL' = IF lockVal # "" THEN LockTTLTicks ELSE lockTTL
    /\ inst' = [inst EXCEPT ![i] =
          [@ EXCEPT !.ref = IF inst[i].pending THEN "due" ELSE "wait",
                    !.pending = FALSE]]
    /\ UNCHANGED <<storeVars, chanVars, procVars, ingressVars, answer, lockVal, ticks>>

\* SIGINT or SIGTERM: main closes the websocket and returns
Signal(i) ==
    /\ Serving(i)
    /\ inst' = [inst EXCEPT ![i] = [@ EXCEPT !.pc = "closing"]]
    /\ UNCHANGED <<storeVars, chanVars, procVars, ingressVars, answer, lockVal, lockTTL, ticks>>

\* deferred release, Get: only the own value leads to Del
ReleaseGet(i) ==
    /\ inst[i].pc = "closing"
    /\ inst' = [inst EXCEPT ![i] =
          IF lockVal = i THEN [@ EXCEPT !.pc = "releasing"] ELSE Exited(i)]
    /\ UNCHANGED <<storeVars, chanVars, procVars, ingressVars, answer, lockVal, lockTTL, ticks>>

\* deferred release, Del, then the process ends
ReleaseDel(i) ==
    /\ inst[i].pc = "releasing"
    /\ lockVal' = ""
    /\ lockTTL' = 0
    /\ inst' = [inst EXCEPT ![i] = [Exited(i) EXCEPT !.released = TRUE]]
    /\ UNCHANGED <<storeVars, chanVars, procVars, ingressVars, answer, ticks>>

NextLeader ==
    \/ \E i \in Instances : Acquire(i)
    \/ \E i \in Instances : AcquireError(i)
    \/ \E i \in Instances : Register(i)
    \/ \E i \in Instances : ConnectError(i)
    \/ \E i \in Instances : HandleFrame(i)
    \/ Advance
    \/ \E i \in Instances : RefreshGet(i)
    \/ \E i \in Instances : RefreshGetError(i)
    \/ \E i \in Instances : RefreshExpire(i)
    \/ \E i \in Instances : Signal(i)
    \/ \E i \in Instances : ReleaseGet(i)
    \/ \E i \in Instances : ReleaseDel(i)

SpecLeader == Init /\ [][NextLeader]_vars


\* ------------------------------------------------ ingress of main (frames)
\* Text is a sequence of characters: "Z" stands for a zero-width character,
\* "N" for a no-break space, " " for a space, any other for itself.
BotPrefix == <<"!">>
DedupeTTL == 2
ProcessedTTL == 2
SenderTTL == 2

IsSpace(c) == c \in {" ", "N"}

RECURSIVE TrimLeft(_)
TrimLeft(s) == IF s # <<>> /\ IsSpace(Head(s)) THEN TrimLeft(Tail(s)) ELSE s

RECURSIVE TrimRight(_)
TrimRight(s) ==
    IF s # <<>> /\ IsSpace(s[Len(s)]) THEN TrimRight(SubSeq(s, 1, Len(s) - 1)) ELSE s

\* strings.TrimSpace
TrimSpace(s) == TrimRight(TrimLeft(s))

\* sanitizeText: zero-width characters removed, no-break space to space, trim
sanitizeText(s) ==
    LET kept == SelectSeq(s, LAMBDA c : c # "Z")
    IN  TrimSpace([k \in 1..Len(kept) |-> IF kept[k] = "N" THEN " " ELSE kept[k]])

IsDigit(c) == c \in {"1", "2"}

\* sanitizeRoomID: the digits of the sanitized text
sanitizeRoomID(s) == SelectSeq(sanitizeText(s), IsDigit)

HasPrefix(s, pre) == Len(s) >= Len(pre) /\ SubSeq(s, 1, Len(pre)) = pre

\* A frame: json says whether msg.JSON is present; room is JSON.RoomID when it
\* is and msg.Room otherwise; text is msg.Msg; sender is *msg.Sender (empty
\* when nil); uid is JSON.UserID.
Frame(json, room, text, sender, uid) ==
    [json |-> json, room |-> room, text |-> text, sender |-> sender, uid |-> uid]

Frames ==
    { Frame(TRUE,  <<"1">>, <<"!", "m">>, <<>>, "u1"),
      Frame(TRUE,  <<"1">>, <<"!", "Z", "m">>, <<>>, "u1"),
      Frame(TRUE,  <<"1">>, <<"!", "m">>, <<>>, "u2"),
      Frame(TRUE,  <<"x">>, <<"!", "m">>, <<>>, "u1"),
      Frame(TRUE,  <<"1">>, <<"h", "i">>, <<>>, "u1"),
      Frame(FALSE, <<"1">>, <<"!", "m">>, <<"A">>, ""),
      Frame(FALSE, <<"1">>, <<"!", "m">>, <<"B">>, "") }

\* a frame without JSON, or with a blank JSON.RoomID
minimalFrame(f) == ~f.json \/ TrimSpace(f.room) = <<>>

\* extractRoomID: the digits of JSON.RoomID, else of msg.Room, else the
\* sanitized room name
extractRoomID(f) ==
    IF sanitizeRoomID(f.room) # <<>> THEN sanitizeRoomID(f.room)
    ELSE IF f.json THEN <<>> ELSE sanitizeText(f.room)

messageText(f) == TrimSpace(f.text)

\* senderName: the sender, else JSON.UserID, else "player"
senderName(f) ==
    IF TrimSpace(f.sender) # <<>> THEN TrimSpace(f.sender)
    ELSE IF f.json /\ f.uid # "" THEN <<f.uid>> ELSE <<"player">>

IgnoreSenders == {<<"b">>}

\* strings.EqualFold on the characters the model uses
Fold(s) == [k \in 1..Len(s) |-> IF s[k] = "A" THEN "a" ELSE IF s[k] = "B" THEN "b" ELSE s[k]]

isIgnoredSender_CaseSensitive(name) ==
    /\ TrimSpace(name) # <<>>
    /\ \E ig \in IgnoreSenders : TrimSpace(ig) = TrimSpace(name)

isIgnoredSender(name) ==
    /\ TrimSpace(name) # <<>>
    /\ \E ig \in IgnoreSenders : Fold(TrimSpace(ig)) = Fold(TrimSpace(name))

\* roomAllowed: JSON present, a numeric room id, and the id listed
roomAllowed(f) ==
    /\ f.json
    /\ extractRoomID(f) # <<>>
    /\ \A k \in 1..Len(extractRoomID(f)) : IsDigit(extractRoomID(f)[k])
    /\ extractRoomID(f) \in cfgAllowed

\* a Redis key is present until its second of expiry
Live(keys, k) == k \in DOMAIN keys /\ clk < keys[k]

Put(m, k, v) == [x \in DOMAIN m \cup {k} |-> IF x = k THEN v ELSE m[x]]

Keep(m, ks) == [x \in ks |-> m[x]]

\* the senderCache of instance i after a frame without JSON was seen: old
\* entries removed, the name stored under room id and trimmed text
CacheAfter(i, f) ==
    LET rid == extractRoomID(f)
        name == TrimSpace(f.sender)
        fresh == {k \in DOMAIN senderCache[i] : clk - senderCache[i][k].ts <= SenderTTL * 2}
    IN  IF minimalFrame(f) /\ rid # <<>> /\ name # <<>>
        THEN Put(Keep(senderCache[i], fresh), <<rid, messageText(f)>>, [name |-> name, ts |-> clk])
        ELSE senderCache[i]

\* the name cached for this room and text not more than SenderTTL ago, else
\* the frame's own sender name
displayUser(i, f, cache) ==
    LET key == <<extractRoomID(f), messageText(f)>>
    IN  IF key \in DOMAIN cache /\ clk - cache[key].ts <= SenderTTL /\ TrimSpace(cache[key].name) # <<>>
        THEN cache[key].name
        ELSE senderName(f)

\* the gates before the dedupe: "" when the frame passes, else the reason
GateDrop(i, f, cache) ==
    IF messageText(f) = <<>> THEN "empty_text"
    ELSE IF minimalFrame(f) /\ extractRoomID(f) = <<>> THEN "no_room_id_minimal"
    ELSE IF isIgnoredSender(displayUser(i, f, cache)) THEN "ignored_sender"
    ELSE IF cfgAllowed # {} /\ ~roomAllowed(f) THEN "room_not_allowed"
    ELSE IF ~HasPrefix(sanitizeText(messageText(f)), sanitizeText(BotPrefix)) THEN "no_prefix"
    ELSE ""

\* dedupe:<rid>:<sha1(smsg)> and rid|smsg: both are the pair (rid, smsg)
DedupeKey(f) == <<extractRoomID(f), sanitizeText(messageText(f))>>

\* the dedupe gates apply when the room id is not empty
Deduped(f) == extractRoomID(f) # <<>> /\ messageText(f) # <<>>

\* SetNX(rkey, "1", 2 s) with the error dropped: ok is false on an error
SetNXDedupe(f, failed) == ~failed /\ ~Live(dedupe, DedupeKey(f))

\* the same key was processed by this instance not more than ProcessedTTL ago
SeenLocally(i, f) ==
    /\ DedupeKey(f) \in DOMAIN processed[i]
    /\ clk - processed[i][DedupeKey(f)] <= ProcessedTTL

\* the OnMessage callback of instance i for frame f; failed says that the
\* store answered the SetNX with an error.  The callbacks of one instance run
\* one after the other in the listen loop.
OnMessage(i, f, failed) ==
    /\ Len(flog) < MaxArrivals
    /\ LET cache == CacheAfter(i, f)
           gate == GateDrop(i, f, cache)
           k == DedupeKey(f)
           ok == SetNXDedupe(f, failed)
           local == SeenLocally(i, f)
           out == IF gate # "" THEN gate
                  ELSE IF Deduped(f) /\ ~ok THEN "dedupe_redis"
                  ELSE IF Deduped(f) /\ local THEN "dedupe"
                  ELSE "handled"
           recent == {x \in DOMAIN processed[i] : clk - processed[i][x] <= ProcessedTTL * 2}
       IN  /\ senderCache' = [senderCache EXCEPT ![i] =
                                 IF messageText(f) = <<>> THEN @ ELSE cache]
           /\ dedupe' = IF gate = "" /\ Deduped(f) /\ ok
                        THEN Put(dedupe, k, clk + DedupeTTL) ELSE dedupe
           /\ processed' = IF out = "handled" /\ Deduped(f)
                           THEN [processed EXCEPT ![i] = Keep(Put(@, k, clk), recent \cup {k})]
                           ELSE processed
           /\ flog' = Append(flog, [inst |-> i, frame |-> f, at |-> clk, out |-> out,
                                    passed |-> gate = "", failed |-> failed /\ gate = "" /\ Deduped(f)])
    /\ UNCHANGED <<storeVars, chanVars, procVars, leaderVars, answer, clk, cfgAllowed, ws>>

\* one second passes; expired dedupe keys leave the store
Tick ==
    /\ clk < MaxClock
    /\ clk' = clk + 1
    /\ dedupe' = Keep(dedupe, {k \in DOMAIN dedupe : clk + 1 < dedupe[k]})
    /\ UNCHANGED <<storeVars, chanVars, procVars, leaderVars, answer, processed, senderCache,
                   cfgAllowed, flog, ws>>

\* the configuration lists room 1 as the only allowed room
LoadConfig ==
    /\ flog = <<>>
    /\ clk = 0
    /\ cfgAllowed = {}
    /\ cfgAllowed' = {<<"1">>}
    /\ UNCHANGED <<storeVars, chanVars, procVars, leaderVars, answer, clk, dedupe, processed,
                   senderCache, flog, ws>>

NextIngress ==
    \/ \E i \in Instances, f \in Frames, failed \in BOOLEAN : OnMessage(i, f, failed)
    \/ Tick
    \/ LoadConfig

SpecIngress == Init /\ [][NextIngress]_vars

\* ------------------------------------------------- the WebSocket of main
\* One WebSocket: the goroutine of main calls Connect and Close; Connect and
\* every successful reconnect start a listen and a ping goroutine; a read
\* error and a second ping failure start a reconnect goroutine. The record
\* counts the goroutines by position: listen loops, ping loops by their
\* consecutive failures, reconnect goroutines by attempt, waiting or dialing.

\* scheduleReconnect: state Reconnecting and a new goroutine before attempt 1
scheduleReconnect(w) ==
    IF maxReconnectAttempts <= 0 THEN w
    ELSE [w EXCEPT !.state = "reconnecting", !.wait[1] = @ + 1]

\* the connection is stored and both loops are started
Connected(w) ==
    [w EXCEPT !.conn = TRUE, !.state = "connected",
              !.listens = @ + 1, !.pings[0] = @ + 1]

\* setState(Disconnected), closeConn and scheduleReconnect
Dropped(w) == scheduleReconnect([w EXCEPT !.state = "disconnected", !.conn = FALSE])

\* a goroutine of the WebSocket can run
Alive == ws.main \in {"serving", "closing"}

\* main calls Connect once; a failed dial ends the process (logger.Fatal)
WS_Connect ==
    /\ ws.main = "start"
    /\ ws.state \notin {"connected", "connecting"}
    /\ \E ok \in BOOLEAN :
          ws' = IF ok THEN [Connected(ws) EXCEPT !.main = "serving", !.dials = @ + 1]
                ELSE [scheduleReconnect([ws EXCEPT !.state = "failed"])
                         EXCEPT !.main = "fatal", !.dials = @ + 1]
    /\ UNCHANGED <<storeVars, chanVars, procVars, leaderVars, answer, clk, dedupe,
                   processed, senderCache, cfgAllowed, flog>>

\* listen: the stop channel is closed, at the top of the loop or when the
\* read returns
WS_ListenStop ==
    /\ Alive /\ ws.listens > 0 /\ ws.stopped
    /\ ws' = [ws EXCEPT !.listens = @ - 1]
    /\ UNCHANGED <<storeVars, chanVars, procVars, leaderVars, answer, clk, dedupe,
                   processed, senderCache, cfgAllowed, flog>>

\* listen: ws.conn is nil at the top of the loop
WS_ListenNoConn ==
    /\ Alive /\ ws.listens > 0 /\ ~ws.stopped /\ ~ws.conn
    /\ ws' = [ws EXCEPT !.listens = @ - 1]
    /\ UNCHANGED <<storeVars, chanVars, procVars, leaderVars, answer, clk, dedupe,
                   processed, senderCache, cfgAllowed, flog>>

\* listen: the read returns an error while the socket is not stopping
WS_ListenError ==
    /\ Alive /\ ws.listens > 0 /\ ~ws.stopped
    /\ ws' = [Dropped(ws) EXCEPT !.listens = @ - 1]
    /\ UNCHANGED <<storeVars, chanVars, procVars, leaderVars, answer, clk, dedupe,
                   processed, senderCache, cfgAllowed, flog>>

\* pingLoop: the select takes the stop channel
WS_PingStop ==
    /\ Alive /\ ws.stopped
    /\ \E c \in {0, 1} :
          /\ ws.pings[c] > 0
          /\ ws' = [ws EXCEPT !.pings[c] = @ - 1]
    /\ UNCHANGED <<storeVars, chanVars, procVars, leaderVars, answer, clk, dedupe,
                   processed, senderCache, cfgAllowed, flog>>

\* pingLoop: a tick with a connection; the second failure in a row drops the
\* connection and schedules a reconnect, and the loop goes on
WS_Ping ==
    /\ Alive /\ ws.conn
    /\ \E c \in {0, 1}, ok \in BOOLEAN :
          /\ ws.pings[c] > 0
          /\ ws' = IF ok THEN [ws EXCEPT !.pings[c] = @ - 1, !.pings[0] = @ + 1]
                   ELSE IF c = 0 THEN [ws EXCEPT !.pings[0] = @ - 1, !.pings[1] = @ + 1]
                   ELSE IF ws.stopped THEN [ws EXCEPT !.pings[1] = @ - 1]
                   ELSE [Dropped(ws) EXCEPT !.pings[1] = @ - 1, !.pings[0] = @ + 1]
          /\ ws' # ws
    /\ UNCHANGED <<storeVars, chanVars, procVars, leaderVars, answer, clk, dedupe,
                   processed, senderCache, cfgAllowed, flog>>

\* reconnect goroutine: the select before attempt k takes the stop channel
WS_ReconnectStop ==
    /\ Alive /\ ws.stopped
    /\ \E k \in 1..maxReconnectAttempts :
          /\ ws.wait[k] > 0
          /\ ws' = [ws EXCEPT !.wait[k] = @ - 1]
    /\ UNCHANGED <<storeVars, chanVars, procVars, leaderVars, answer, clk, dedupe,
                   processed, senderCache, cfgAllowed, flog>>

\* reconnect goroutine: the backoff timer of attempt k is taken (it can be
\* ready together with the stop channel) and websocket.Dial is called
WS_ReconnectDial ==
    /\ Alive /\ ws.dials < MaxDials
    /\ \E k \in 1..maxReconnectAttempts :
          /\ ws.wait[k] > 0
          /\ ws' = [ws EXCEPT !.wait[k] = @ - 1, !.dial[k] = @ + 1, !.dials = @ + 1,
                              !.late = @ \/ ws.stopped]
    /\ UNCHANGED <<storeVars, chanVars, procVars, leaderVars, answer, clk, dedupe,
                   processed, senderCache, cfgAllowed, flog>>

\* reconnect goroutine: the dial of attempt k returns
WS_ReconnectResult ==
    /\ Alive
    /\ \E k \in 1..maxReconnectAttempts, ok \in BOOLEAN :
          /\ ws.dial[k] > 0
          /\ ws' = IF ok THEN [Connected(ws) EXCEPT !.dial[k] = @ - 1]
                   ELSE IF k < maxReconnectAttempts
                   THEN [ws EXCEPT !.dial[k] = @ - 1, !.wait[k + 1] = @ + 1]
                   ELSE [ws EXCEPT !.dial[k] = @ - 1, !.state = "failed"]
    /\ UNCHANGED <<storeVars, chanVars, procVars, leaderVars, answer, clk, dedupe,
                   processed, senderCache, cfgAllowed, flog>>

\* Close: the stop channel is closed and the connection is closed
WS_Close ==
    /\ ws.main = "serving"
    /\ ws' = [ws EXCEPT !.main = "closing", !.stopped = TRUE, !.conn = FALSE]
    /\ UNCHANGED <<storeVars, chanVars, procVars, leaderVars, answer, clk, dedupe,
                   processed, senderCache, cfgAllowed, flog>>

\* Close returns when the wait group is empty, and main ends the process
WS_Closed ==
    /\ ws.main = "closing"
    /\ ws.listens = 0 /\ ws.pings[0] + ws.pings[1] = 0
    /\ ws' = [ws EXCEPT !.main = "exited"]
    /\ UNCHANGED <<storeVars, chanVars, procVars, leaderVars, answer, clk, dedupe,
                   processed, senderCache, cfgAllowed, flog>>

NextSocket ==
    \/ WS_Connect
    \/ WS_ListenStop
    \/ WS_ListenNoConn
    \/ WS_ListenError
    \/ WS_PingStop
    \/ WS_Ping
    \/ WS_ReconnectStop
    \/ WS_ReconnectDial
    \/ WS_ReconnectResult
    \/ WS_Close
    \/ WS_Closed

SpecSocket == Init /\ [][NextSocket]_vars

\* ------------------------------------------------ command handlers of main
\* handleCommand runs in a goroutine of its own for every frame that passed
\* the ingress filters. The status, resign and move handlers are one step
\* each; the lobby handlers run Make and Join in the steps of the channel
\* lobby and reply when the call has returned.

\* what the single-player service answers to Status for the frame's session:
\* a session, or an error such as ErrSessionNotFound
LegacyReplies == {"session", "error"}

\* the (user, room) pairs the status, resign and move commands come from
CommandSites == {<<"u1", "r1">>, <<"u2", "r3">>, <<"u3", "r3">>}

\* client.SendMessage(room, text)
TextTo(room, text) ==
    [room |-> room, kind |-> "text", text |-> text, gid |-> 0, color |-> "", flip |-> FALSE]

\* presenter.Board(room, text, dto)
BoardTo(room, text, dto) ==
    [room |-> room, kind |-> "board", text |-> text, gid |-> dto.gid,
     color |-> dto.color, flip |-> dto.flip]

\* presenter.Board returned an error: the text or the image was not sent
BoardFailed(room, text, dto) == [BoardTo(room, text, dto) EXCEPT !.kind = "board_error"]

\* the answer of a handler: the route it logs as route_decision, the rooms it
\* logs as pvp_fanout_targets, and the messages it sends, in order
Reply(cmd, user, room, found, route, gid, committed, sends) ==
    [seq |-> 1 - answer.seq, cmd |-> cmd, user |-> user, room |-> room, found |-> found,
     route |-> route, legacy |-> "", gid |-> gid, committed |-> committed,
     rooms |-> <<>>, sends |-> sends]

\* the answer of a broadcast to the rooms
Fanout(rooms, reply) == [reply EXCEPT !.rooms = rooms]

\* GetActiveGameByUser: the most recently updated ACTIVE game of the user
GetActiveGameByUser(user) ==
    LET c == {id \in gameIdx[user] : id \in DOMAIN games /\ games[id].status = "ACTIVE"}
    IN  IF c = {} THEN 0
        ELSE CHOOSE id \in c : \A o \in c : games[o].updated_at <= games[id].updated_at

\* ToDTOForViewer: the board as the viewer's colour sees it
ToDTOForViewer(g, viewerID) ==
    LET viewerColor == IF viewerID = g.black_id THEN "black" ELSE "white"
    IN  [gid |-> g.id, color |-> viewerColor, flip |-> viewerColor = "black"]

\* ToDTOForViewer fails when the stored moves cannot be replayed
Renders(g) == reconstruct(g.moves_uci).ok

\* CodesByUser and LoadMeta: the channels of the user whose meta names the game
BoundCodes(user, gid) ==
    {c \in chUserIdx[user] : c \in DOMAIN chMeta /\ chMeta[c].game_id = gid}

\* MetaByGame: the code of the channel bound to the game, "" for none
MetaByGame(g) ==
    LET cs == BoundCodes(g.white_id, g.id) \cup BoundCodes(g.black_id, g.id)
    IN  IF cs = {} THEN "" ELSE CHOOSE c \in cs : TRUE

RoomsByUserAndGame(user, gid) ==
    LET cs == BoundCodes(user, gid)
    IN  IF cs = {} THEN {} ELSE chRooms[CHOOSE c \in cs : TRUE]

\* mergeFanoutRooms: the set of the non-blank rooms and the game's two rooms
mergeFanoutRooms(g, rooms) == (rooms \cup {g.origin_room, g.resolve_room}) \ {""}

fanoutRooms(g, extra) ==
    LET code == MetaByGame(g)
    IN  mergeFanoutRooms(g, {extra}
                            \cup (IF code # "" THEN chRooms[code] ELSE {})
                            \cup RoomsByUserAndGame(g.white_id, g.id)
                            \cup RoomsByUserAndGame(g.black_id, g.id))

\* the slices a range over the map of mergeFanoutRooms can produce
Orders(S) ==
    {s \in [1..Cardinality(S) -> S] : \A a, b \in 1..Cardinality(S) : s[a] = s[b] => a = b}

RECURSIVE appendUnseen(_, _)
appendUnseen(sofar, rooms) ==
    IF rooms = <<>> THEN sofar
    ELSE LET rr == Head(rooms)
         IN  appendUnseen(IF rr = "" \/ \E k \in 1..Len(sofar) : sofar[k] = rr
                          THEN sofar ELSE Append(sofar, rr),
                          Tail(rooms))

prioritizeRooms_NoSeen(rooms, current) == <<current>> \o rooms

\* prioritizeRooms: the current room first, then the others without repeats
prioritizeRooms(rooms, current) ==
    IF current = "" THEN rooms ELSE appendUnseen(<<current>>, rooms)

\* the viewer of a room: the creator in the creator's room, the creator's
\* opponent elsewhere, and white everywhere when no channel meta was found
viewerFor(g, meta, r) ==
    IF meta = NilMeta THEN g.white_id
    ELSE IF r = meta.creator_room THEN meta.creator_id
    ELSE IF meta.creator_id = g.white_id THEN g.black_id ELSE g.white_id

\* the DTO chosen for a viewer answer of the two that were rendered
dtoFor(g, viewer) ==
    IF viewer = g.black_id THEN ToDTOForViewer(g, g.black_id)
    ELSE ToDTOForViewer(g, g.white_id)

\* the meta MetaByGame hands to the fanout loops
metaOf(g) == IF MetaByGame(g) = "" THEN NilMeta ELSE chMeta[MetaByGame(g)]

\* the fanout loop of the status and move handlers
boardFanout(g, rooms, meta, text) ==
    [k \in 1..Len(rooms) |-> BoardTo(rooms[k], text, dtoFor(g, viewerFor(g, meta, rooms[k])))]

\* a loop that sends every text first and the boards afterwards
startFanout_BoardsLast(g, rooms, meta, failing) ==
    [k \in 1..Len(rooms) |-> TextTo(rooms[k], "pvp.start.announce")]
    \o [k \in 1..Len(rooms) |->
           BoardTo(rooms[k], "", dtoFor(g, viewerFor(g, meta, rooms[k])))]

\* the fanout loop of the start broadcast: text, then the board, then the
\* board.send.failed text in the rooms of failing, whose presenter.Board call
\* returns an error
RECURSIVE startFanout(_, _, _, _)
startFanout(g, rooms, meta, failing) ==
    IF rooms = <<>> THEN <<>>
    ELSE LET r == Head(rooms)
             dto == dtoFor(g, viewerFor(g, meta, r))
         IN  <<TextTo(r, "pvp.start.announce")>>
             \o (IF r \in failing
                 THEN <<BoardFailed(r, "", dto), TextTo(r, "board.send.failed")>>
                 ELSE <<BoardTo(r, "", dto)>>)
             \o startFanout(g, Tail(rooms), meta, failing)

\* the fanout loop of the resign handler
resignFanout(g, rooms, meta, user) ==
    [k \in 1..Len(rooms) |->
        TextTo(rooms[k], IF viewerFor(g, meta, rooms[k]) = user THEN "pvp.resign.loser"
                         ELSE "pvp.resign.winner")]

\* the room lists a broadcast of game g from the room can go through
FanoutLists(g, room) == {prioritizeRooms(o, room) : o \in Orders(fanoutRooms(g, room))}

\* the second and third routes: single-player when it reports a session
LegacyOrNone(cmd, user, room, legacy) ==
    [(IF legacy = "session"
      THEN Reply(cmd, user, room, 0, "legacy", 0, FALSE, <<[TextTo(room, "") EXCEPT !.kind = "legacy"]>>)
      ELSE Reply(cmd, user, room, 0, "none", 0, FALSE, <<TextTo(room, "no.active.game")>>))
     EXCEPT !.legacy = legacy]

\* status: the lookup error counts as no game
H_Status ==
    /\ calls < MaxCommands
    /\ \E cs \in CommandSites, failed \in BOOLEAN :
          LET user == cs[1]
              room == cs[2]
              id == IF failed THEN 0 ELSE GetActiveGameByUserInRoom(user, room)
          IN  IF id # 0
              THEN IF ~Renders(games[id])
                   THEN answer' = Reply("status", user, room, id, "pvp", id, FALSE,
                                        <<TextTo(room, "render.error")>>)
                   ELSE \E rooms \in FanoutLists(games[id], room) :
                           answer' = Fanout(rooms, Reply("status", user, room, id, "pvp", id, FALSE,
                                 boardFanout(games[id], rooms, metaOf(games[id]), "")))
              ELSE \E legacy \in LegacyReplies :
                      answer' = LegacyOrNone("status", user, room, legacy)
    /\ calls' = calls + 1
    /\ UNCHANGED <<storeVars, chanVars, proc, leaderVars, ingressVars>>

\* resign: the lookup error is dropped; ResignByRoom, then the texts
H_Resign ==
    /\ calls < MaxCommands
    /\ \E cs \in CommandSites, failed \in BOOLEAN :
          LET user == cs[1]
              room == cs[2]
              id == IF failed THEN 0 ELSE GetActiveGameByUserInRoom(user, room)
              r == ResignTxBody(games[id], user, room, now)
          IN  IF id = 0
              THEN /\ \E legacy \in LegacyReplies :
                         answer' = LegacyOrNone("resign", user, room, legacy)
                   /\ UNCHANGED storeVars
              ELSE \/ \* ResignByRoom failed: LoadGame, texts only for a finished game
                      /\ IF games[id].status # "ACTIVE"
                         THEN \E rooms \in FanoutLists(games[id], room) :
                                 answer' = Fanout(rooms, Reply("resign", user, room, id, "pvp", id, FALSE,
                                       resignFanout(games[id], rooms, metaOf(games[id]), user)))
                         ELSE answer' = Reply("resign", user, room, id, "pvp", id, FALSE,
                                              <<TextTo(room, "resign.process.error")>>)
                      /\ UNCHANGED storeVars
                   \/ /\ r.kind = "commit"
                      /\ games' = [games EXCEPT ![id] = r.g]
                      /\ now' = now + 1
                      /\ \E ok \in BOOLEAN : saved' = persistIfFinal(r.g, "resignation", ok)
                      /\ \E rooms \in FanoutLists(r.g, room) :
                            answer' = Fanout(rooms, Reply("resign", user, room, id, "pvp", id, TRUE,
                                  resignFanout(r.g, rooms, metaOf(r.g), user)))
                      /\ UNCHANGED <<gameIdx, joinGames>>
    /\ calls' = calls + 1
    /\ UNCHANGED <<chanVars, proc, leaderVars, ingressVars>>

\* what handlePvPMove sends after PlayMoveByRoom returned
movePlayed(user, room, id, oldLen, r, g) ==
    IF r.kind # "commit"
    THEN {Reply("move", user, room, id, "pvp", id, FALSE,
                <<TextTo(room, IF MoveErrRet(g, r.kind, r.text).err # "nil"
                               THEN "move.failed"
                               ELSE MoveErrRet(g, r.kind, r.text).text)>>)}
    ELSE IF Len(r.g.moves_uci) <= oldLen
    THEN {Reply("move", user, room, id, "pvp", id, TRUE, <<TextTo(room, r.text)>>)}
    ELSE IF ~Renders(r.g)
    THEN {Reply("move", user, room, id, "pvp", id, TRUE, <<TextTo(room, r.text)>>)}
    ELSE {Fanout(rooms, Reply("move", user, room, id, "pvp", id, TRUE,
                              boardFanout(r.g, rooms, metaOf(r.g),
                                          IF r.g.status = "FINISHED" THEN "finish.checkmate"
                                          ELSE IF r.g.status = "DRAW" THEN "finish.draw"
                                          ELSE ""))) :
             rooms \in FanoutLists(r.g, room)}

\* the move texts the handlers are given
HandlerMoves == {"e2e4", "d8h4", "e2e5", "invalid"}

\* a bare move: handlePvPMove with strict = false, then the other routes; a
\* lookup error is answered by handlePvPMove itself
H_Move ==
    /\ calls < MaxCommands
    /\ \E cs \in CommandSites, failed \in BOOLEAN :
          LET user == cs[1]
              room == cs[2]
              id == IF failed THEN 0 ELSE GetActiveGameByUserInRoom(user, room)
              g == games[id]
          IN  IF failed
              THEN /\ answer' = Reply("move", user, room, 0, "pvp", 0, FALSE,
                                      <<TextTo(room, "move.state.error")>>)
                   /\ UNCHANGED storeVars
              ELSE IF id = 0
              THEN /\ \E legacy \in LegacyReplies :
                         answer' = LegacyOrNone("move", user, room, legacy)
                   /\ UNCHANGED storeVars
              ELSE \E m \in HandlerMoves :
                      LET r == MoveTxBody(g, user, room, m, Len(g.moves_uci), now)
                      IN  /\ IF r.kind = "commit"
                             THEN /\ games' = [games EXCEPT ![id] = r.g]
                                  /\ now' = now + 1
                                  /\ saved' \in
                                        IF r.g.status = "FINISHED"
                                        THEN {persistIfFinal(r.g, "checkmate", ok) : ok \in BOOLEAN}
                                        ELSE IF r.g.status = "DRAW"
                                        THEN {persistIfFinal(r.g, "draw", ok) : ok \in BOOLEAN}
                                        ELSE {saved}
                                  /\ UNCHANGED <<gameIdx, joinGames>>
                             ELSE UNCHANGED storeVars
                          /\ answer' \in movePlayed(user, room, id, Len(g.moves_uci), r, g)
    /\ calls' = calls + 1
    /\ UNCHANGED <<chanVars, proc, leaderVars, ingressVars>>

\* the lobby handlers first look for a game or a session of the sender in
\* the room and answer "busy" without calling the lobby
H_LobbyBusy ==
    /\ calls < MaxCommands
    /\ \E cs \in CommandSites, cmd \in {"make", "join"} :
          LET id == GetActiveGameByUserInRoom(cs[1], cs[2])
          IN  /\ id # 0 \/ "session" \in LegacyReplies
              /\ answer' = Reply(cmd, cs[1], cs[2], id, "busy", 0, FALSE,
                              <<TextTo(cs[2], "pvp.busy.in_room")>>)
    /\ calls' = calls + 1
    /\ UNCHANGED <<storeVars, chanVars, proc, leaderVars, ingressVars>>

H_Make(p) ==
    /\ MK_Busy(p)
    /\ GetActiveGameByUserInRoom(proc'[p].user, proc'[p].room) = 0

H_Join(p) ==
    /\ JN_Load(p)
    /\ GetActiveGameByUserInRoom(proc'[p].user, proc'[p].room) = 0

H_MakeReply(p) ==
    /\ proc[p].pc = "done"
    /\ proc[p].op = "make"
    /\ answer' = Reply("make", proc[p].user, proc[p].room, 0, "lobby", 0, proc[p].ret.err = "nil",
                    <<TextTo(proc[p].room, IF proc[p].ret.err = "nil" THEN "lobby_make.success"
                                           ELSE "channel.create.error")>>)
    /\ proc' = [proc EXCEPT ![p] = IdleProc]
    /\ UNCHANGED <<storeVars, chanVars, leaderVars, ingressVars, calls>>

\* after Join: the error, the waiting text, or the start broadcast of the
\* joiner's most recently updated ACTIVE game with the meta Join returned
H_JoinReply(p) ==
    /\ proc[p].pc = "done"
    /\ proc[p].op = "join"
    /\ LET me == proc[p]
           id == GetActiveGameByUser(me.user)
           one(route, text) == Reply("join", me.user, me.room, 0, route, 0, FALSE,
                                     <<TextTo(me.room, text)>>)
       IN  IF me.ret.err # "nil" THEN answer' = one("lobby", "join.error")
           ELSE IF ~me.ret.started THEN answer' = one("lobby", "join.waiting")
           ELSE IF id = 0 THEN answer' = one("start", "game.not_found")
           ELSE IF ~Renders(games[id]) THEN answer' = one("start", "render.error")
           ELSE \E rooms \in FanoutLists(games[id], me.room) :
                \E failing \in SUBSET {rooms[k] : k \in 1..Len(rooms)} :
                   answer' = Fanout(rooms, Reply("start", me.user, me.room, me.ret.gid, "pvp", id, TRUE,
                                      startFanout(games[id], rooms, me.meta, failing)))
    /\ proc' = [proc EXCEPT ![p] = IdleProc]
    /\ UNCHANGED <<storeVars, chanVars, leaderVars, ingressVars, calls>>

\* a match that is already running when the first command arrives: u3 made
\* channel CH-B in room r3 and u2 joined it from the same room
HandlerSetup ==
    /\ calls = 0
    /\ games = <<>>
    /\ \E coin \in {0, 1} :
          LET col == AssignColors("u3", "u2", "random", coin)
          IN  /\ games' = (1 :> NewGame(1, "r3", "r3", col.white, col.black, now))
              /\ chMeta' = ("CH-B" :> [state |-> "ACTIVE", creator_id |-> "u3",
                                       creator_room |-> "r3", white_id |-> col.white,
                                       black_id |-> col.black, game_id |-> 1])
    /\ gameIdx' = [u \in Users |-> IF u \in {"u2", "u3"} THEN gameIdx[u] \cup {1} ELSE gameIdx[u]]
    /\ joinGames' = joinGames \cup {1}
    /\ chParts' = [chParts EXCEPT !["CH-B"] = {"u3", "u2"}]
    /\ chRooms' = [chRooms EXCEPT !["CH-B"] = {"r3"}]
    /\ chUserIdx' = [u \in Users |-> IF u \in {"u2", "u3"} THEN chUserIdx[u] \cup {"CH-B"}
                                     ELSE chUserIdx[u]]
    /\ now' = now + 1
    /\ UNCHANGED <<saved, chLobby, procVars, leaderVars, ingressVars, answer>>

\* the lobby calls of the handlers run one at a time
HandlerProcs == {1}

NextHandler ==
    \/ HandlerSetup
    \/ H_Status
    \/ H_Resign
    \/ H_Move
    \/ H_LobbyBusy
    \/ \E p \in HandlerProcs : H_Make(p)
    \/ \E p \in HandlerProcs : MK_LobbyCheck(p)
    \/ \E p \in HandlerProcs : MK_SetNX(p)
    \/ \E p \in HandlerProcs : MK_SaveMeta(p)
    \/ \E p \in HandlerProcs : MK_AddRoom(p)
    \/ \E p \in HandlerProcs : MK_AddParticipant(p)
    \/ \E p \in HandlerProcs : MK_AddLobby(p)
    \/ \E p \in HandlerProcs : H_MakeReply(p)
    \/ \E p \in HandlerProcs : H_Join(p)
    \/ \E p \in HandlerProcs : JN_Watch(p)
    \/ \E p \in HandlerProcs : JN_SCard(p)
    \/ \E p \in HandlerProcs : JN_Exec(p)
    \/ \E p \in HandlerProcs : JN_Reload(p)
    \/ \E p \in HandlerProcs : JN_Count(p)
    \/ \E p \in HandlerProcs : JN_BusyJoiner(p)
    \/ \E p \in HandlerProcs : JN_BusyCreator(p)
    \/ \E p \in HandlerProcs : JN_Create(p)
    \/ \E p \in HandlerProcs : JN_Index(p)
    \/ \E p \in HandlerProcs : JN_SaveMeta(p)
    \/ \E p \in HandlerProcs : JN_RemoveLobby(p)
    \/ \E p \in HandlerProcs : H_JoinReply(p)

SpecHandler == Init /\ [][NextHandler]_vars

\* ------------------------------------------- the move handler step by step
\* handlePvPMove looks the game up itself, then calls PlayMoveByRoom, which
\* looks it up again and runs its watch transaction; other commands can run
\* between any two of these steps.

\* a match that is running when the first move arrives: u1 made channel CH-A
\* in room r1 and u2 joined it from room r2
MoveSetup ==
    /\ calls = 0
    /\ games = <<>>
    /\ \E coin \in {0, 1} :
          LET col == AssignColors("u1", "u2", "random", coin)
          IN  /\ games' = (1 :> NewGame(1, "r1", "r2", col.white, col.black, now))
              /\ chMeta' = ("CH-A" :> [state |-> "ACTIVE", creator_id |-> "u1",
                                       creator_room |-> "r1", white_id |-> col.white,
                                       black_id |-> col.black, game_id |-> 1])
    /\ gameIdx' = [u \in Users |-> IF u \in {"u1", "u2"} THEN gameIdx[u] \cup {1} ELSE gameIdx[u]]
    /\ joinGames' = joinGames \cup {1}
    /\ chParts' = [chParts EXCEPT !["CH-A"] = {"u1", "u2"}]
    /\ chRooms' = [chRooms EXCEPT !["CH-A"] = {"r1", "r2"}]
    /\ chUserIdx' = [u \in Users |-> IF u \in {"u1", "u2"} THEN chUserIdx[u] \cup {"CH-A"}
                                     ELSE chUserIdx[u]]
    /\ now' = now + 1
    /\ UNCHANGED <<saved, chLobby, procVars, leaderVars, ingressVars, answer>>

\* the (user, room) pairs the moves of this match come from
MoveSites == {<<"u1", "r1">>, <<"u2", "r2">>}

\* the handler's own GetActiveGameByUserInRoom: an error is answered at once,
\* no game goes to the other routes, a game gives oldLen
HM_Lookup(p) ==
    /\ FreeSlot(p)
    /\ calls < MaxCalls
    /\ \E cs \in MoveSites, failed \in BOOLEAN :
          LET user == cs[1]
              room == cs[2]
              id == GetActiveGameByUserInRoom(user, room)
          IN  IF failed
              THEN /\ answer' = Reply("move", user, room, 0, "pvp", 0, FALSE,
                                      <<TextTo(room, "move.state.error")>>)
                   /\ UNCHANGED proc
              ELSE IF id = 0
              THEN /\ \E legacy \in LegacyReplies :
                         answer' = LegacyOrNone("move", user, room, legacy)
                   /\ UNCHANGED proc
              ELSE /\ \E m \in HandlerMoves :
                         proc' = [proc EXCEPT ![p] =
                                    [IdleProc EXCEPT !.op = "move", !.pc = "hm_play",
                                                     !.user = user, !.room = room, !.move = m,
                                                     !.hLen = Len(games[id].moves_uci)]]
                   /\ UNCHANGED answer
    /\ calls' = calls + 1
    /\ UNCHANGED <<storeVars, chanVars, leaderVars, ingressVars>>

\* PlayMoveByRoom begins: its own GetActiveGameByUserInRoom
HM_Play(p) ==
    /\ proc[p].pc = "hm_play"
    /\ LET me == proc[p]
           id == GetActiveGameByUserInRoom(me.user, me.room)
       IN  proc' = [proc EXCEPT ![p] =
              IF id = 0
              THEN [me EXCEPT !.pc = "done", !.ret = RetGame(NilGame, "", "nil")]
              ELSE [me EXCEPT !.pc = "pm_watch", !.pre = games[id], !.g = games[id],
                              !.oldLen = Len(games[id].moves_uci)]]
    /\ UNCHANGED <<storeVars, chanVars, leaderVars, ingressVars, answer, calls>>

\* a loop that returns at the first presenter.Board error
moveFanout_StopOnError(g, rooms, meta, text, fallback, failing) ==
    LET bad == {k \in 1..Len(rooms) : rooms[k] \in failing}
        n == IF bad = {} THEN Len(rooms) ELSE CHOOSE k \in bad : \A j \in bad : k <= j
    IN  [k \in 1..n |->
            IF rooms[k] \in failing
            THEN BoardFailed(rooms[k], text, dtoFor(g, viewerFor(g, meta, rooms[k])))
            ELSE BoardTo(rooms[k], text, dtoFor(g, viewerFor(g, meta, rooms[k])))]

\* the fanout loop of handlePvPMove; failing holds the rooms whose
\* presenter.Board call returns an error, which get the fallback text
RECURSIVE moveFanout(_, _, _, _, _, _)
moveFanout(g, rooms, meta, text, fallback, failing) ==
    IF rooms = <<>> THEN <<>>
    ELSE LET r == Head(rooms)
             dto == dtoFor(g, viewerFor(g, meta, r))
         IN  (IF r \in failing
              THEN <<BoardFailed(r, text, dto),
                     TextTo(r, IF text # "" THEN text
                               ELSE IF fallback # "" THEN fallback ELSE "board.send.failed")>>
              ELSE <<BoardTo(r, text, dto)>>)
             \o moveFanout(g, Tail(rooms), meta, text, fallback, failing)

\* handlePvPMove after PlayMoveByRoom returned game g, text and error
HM_Reply(p) ==
    /\ proc[p].pc = "done"
    /\ proc[p].op = "move"
    /\ LET me == proc[p]
           g == me.g
           one(text) == Reply("move", me.user, me.room, me.ret.gid, "pvp", me.ret.gid,
                              me.committed, <<TextTo(me.room, text)>>)
       IN  IF me.ret.err # "nil" \/ me.ret.gid = 0
           THEN answer' = one("move.failed")
           ELSE IF me.ret.len <= me.hLen
           THEN answer' = one(IF me.ret.text = "" THEN "move.failed" ELSE me.ret.text)
           ELSE IF ~Renders(g)
           THEN answer' = one(IF me.ret.text = "" THEN "render.board.failed" ELSE me.ret.text)
           ELSE \E rooms \in FanoutLists(g, me.room) :
                \E failing \in SUBSET {rooms[k] : k \in 1..Len(rooms)} :
                   answer' = Fanout(rooms,
                         Reply("move", me.user, me.room, g.id, "pvp", g.id, me.committed,
                               moveFanout(g, rooms, metaOf(g),
                                          IF g.status = "FINISHED" THEN "finish.checkmate"
                                          ELSE IF g.status = "DRAW" THEN "finish.draw"
                                          ELSE "",
                                          me.ret.text, failing)))
    /\ proc' = [proc EXCEPT ![p] = IdleProc]
    /\ UNCHANGED <<storeVars, chanVars, leaderVars, ingressVars, calls>>

\* two move commands at a time
MoveProcs == {1, 2}

NextMove ==
    \/ MoveSetup
    \/ \E p \in MoveProcs : HM_Lookup(p)
    \/ \E p \in MoveProcs : HM_Play(p)
    \/ \E p \in MoveProcs : PM_Watch(p)
    \/ \E p \in MoveProcs : PM_Get(p)
    \/ \E p \in MoveProcs : PM_Exec(p)
    \/ \E p \in MoveProcs : PM_Persist(p)
    \/ \E p \in MoveProcs : HM_Reply(p)

SpecMove == Init /\ [][NextMove]_vars

\* ================================================================== claims
\* a finished PlayMoveByRoom call that ran its watch transaction
RanMoveTx(p) ==
    /\ proc[p].pc = "done"
    /\ proc[p].op = "move"
    /\ proc[p].tries >= 1

\* the call would commit if it ran alone on the state it read
WouldCommit(p) ==
    MoveTxBody(proc[p].pre, proc[p].user, proc[p].room, proc[p].move,
               proc[p].oldLen, 0).kind = "commit"

\* two calls that read the same pre-move state of one game, with no third writer
SamePreMove(p, q) ==
    /\ p # q
    /\ RanMoveTx(p) /\ RanMoveTx(q)
    /\ proc[p].pre.id = proc[q].pre.id
    /\ proc[p].oldLen = proc[q].oldLen
    /\ WouldCommit(p) /\ WouldCommit(q)
    /\ \A r \in Procs \ {p, q} : ~(proc[r].committed /\ proc[r].pre.id = proc[p].pre.id)

\* C1: of two PlayMoveByRoom calls that read the same pre-move state of an
\* ACTIVE game (each of which would commit alone), exactly one commits; the
\* other returns the "concurrent command, retry" text with a nil error after a
\* single attempt, and the stored game has exactly one more move than before.
C1_OneCommits ==
    \A p \in Procs, q \in Procs :
        SamePreMove(p, q) /\ ~proc[q].committed =>
            /\ proc[p].committed
            /\ proc[q].ret.text = TxtConcurrent
            /\ proc[q].ret.err = "nil"
            /\ proc[q].tries = 1 /\ proc[p].tries = 1
            /\ Len(games[proc[p].pre.id].moves_uci) = proc[p].oldLen + 1

C1_Witness ==
    \E p \in Procs, q \in Procs :
        /\ SamePreMove(p, q)
        /\ proc[p].committed /\ ~proc[q].committed
        /\ proc[p].move # proc[q].move
        /\ proc[q].ret.text = TxtConcurrent

\* C2: once a game's stored status is FINISHED, RESIGNED or DRAW, no step of
\* any PlayMoveByRoom or ResignByRoom call changes its status, winner,
\* moves_uci or moves_san.
C2_TerminalFrozen ==
    [][\A id \in DOMAIN games :
          games[id].status \in Terminal =>
             /\ games'[id].status = games[id].status
             /\ games'[id].winner = games[id].winner
             /\ games'[id].moves_uci = games[id].moves_uci
             /\ games'[id].moves_san = games[id].moves_san]_vars

\* a call that looked the game up while ACTIVE and ran its transaction against
\* the game after another call had made it terminal
C2_Witness ==
    \E p \in Procs :
        /\ proc[p].pc = "done"
        /\ proc[p].op \in {"move", "resign"}
        /\ proc[p].tries = 1
        /\ ~proc[p].committed
        /\ proc[p].pre.status = "ACTIVE"
        /\ games[proc[p].pre.id].status \in Terminal

\* C3: every step leaves each game's moves_uci as it was or appends exactly
\* one move to it; no committed move is removed, reordered or overwritten.
C3_AppendOnly ==
    [][\A id \in DOMAIN games :
          \/ games'[id].moves_uci = games[id].moves_uci
          \/ /\ Len(games'[id].moves_uci) = Len(games[id].moves_uci) + 1
             /\ SubSeq(games'[id].moves_uci, 1, Len(games[id].moves_uci)) = games[id].moves_uci]_vars

\* a second commit on a game that already held a committed move
C3_Witness ==
    \E p \in Procs :
        /\ proc[p].committed
        /\ proc[p].oldLen >= 1
        /\ games[proc[p].pre.id].moves_uci # proc[p].pre.moves_uci

\* no handler goroutine is in the middle of a call
Quiescent == \A p \in Procs : proc[p].pc \in {"idle", "done"}

ActiveGamesOf(u, r) ==
    {id \in DOMAIN games : /\ games[id].status = "ACTIVE"
                           /\ u \in {games[id].white_id, games[id].black_id}
                           /\ InRoom(games[id], r)}

\* C4: for every user u and room r at most one stored game is ACTIVE with u as
\* white or black and r as its origin_room or resolve_room.
C4_OneActivePerUserRoom ==
    \A u \in Users, r \in Rooms : Cardinality(ActiveGamesOf(u, r)) <= 1

\* C5: the participants set of a channel never holds more than two members.
C5_AtMostTwoParticipants ==
    \A c \in Codes : Cardinality(chParts[c]) <= 2

LobbiesOf(u) ==
    {c \in DOMAIN chMeta : chMeta[c].state = "LOBBY" /\ chMeta[c].creator_id = u}

\* C6: for every user at most one channel in state LOBBY has that user as
\* creator, also when the user issues Make concurrently from two rooms.
C6_OneLobbyPerCreator ==
    \A u \in Users : Cardinality(LobbiesOf(u)) <= 1

ChannelsOfGame(id) == {c \in DOMAIN chMeta : chMeta[c].game_id = id}

\* C7: once the Join calls have returned, every ACTIVE game that a Join
\* created is referenced by the game_id of exactly one channel.
C7_GameBoundToOneChannel ==
    Quiescent =>
        \A id \in joinGames :
            games[id].status = "ACTIVE" => Cardinality(ChannelsOfGame(id)) = 1

\* C8: a Join that committed the second member into the participants set of a
\* LOBBY channel has, when it returns, created a game, stored its id in the
\* channel's game_id, set the state to ACTIVE and removed the code from the
\* lobby index; the channel is not left with two participants in state LOBBY.
C8_SecondJoinStarts ==
    \A p \in Procs :
        proc[p].pc = "done" /\ proc[p].op = "join" /\ proc[p].second =>
            /\ proc[p].ret.started
            /\ proc[p].ret.gid \in joinGames
            /\ chMeta[proc[p].code].game_id = proc[p].ret.gid
            /\ chMeta[proc[p].code].state = "ACTIVE"
            /\ proc[p].code \notin chLobby

\* C9: at any time at most one running instance has its ingress handler
\* registered and processes frames as the leader.
C9_SingleLeader ==
    Cardinality({i \in Instances : Serving(i)}) <= 1

\* both instances ran their SetNX, without an error, inside one refresh
\* interval that began with the lock absent, and no release deleted the key
StartedTogether ==
    /\ ticks = 0
    /\ \A i \in Instances : inst[i].setnx \in {"ok", "taken"}
    /\ \A i \in Instances : ~inst[i].released

\* C10: when two instances start concurrently with the lock absent, exactly
\* one SetNX succeeds; the instance whose SetNX failed has exited and has
\* handled no frame.
C10_OneAcquires ==
    /\ StartedTogether =>
          Cardinality({i \in Instances : inst[i].setnx = "ok"}) = 1
    /\ \A i \in Instances :
          inst[i].setnx = "taken" => inst[i].pc = "exited" /\ inst[i].handled = 0

C10_Witness ==
    /\ StartedTogether
    /\ \E i \in Instances :
          /\ inst[i].setnx = "ok" /\ Serving(i) /\ inst[i].handled > 0
          /\ \A j \in Instances \ {i} : inst[j].setnx = "taken" /\ inst[j].pc = "exited"

\* two frames of the log with the same room id and sanitized text, both past
\* the sender, room and prefix gates, delivered less than 2 s apart
SamePair(a, b) ==
    /\ a < b
    /\ flog[a].passed /\ flog[b].passed
    /\ DedupeKey(flog[a].frame) = DedupeKey(flog[b].frame)
    /\ flog[b].at - flog[a].at < DedupeTTL

\* C11: of two such frames, on one instance or on two, exactly one leads to a
\* handleCommand invocation.
C11_HandledOnce ==
    \A a, b \in 1..Len(flog) :
        SamePair(a, b) =>
            Cardinality({x \in {a, b} : flog[x].out = "handled"}) = 1

\* C12: in every stored state of every game, moves_uci and moves_san have
\* the same length, whether the moves were entered as UCI or as SAN.
C12_SameLength ==
    \A id \in DOMAIN games : Len(games[id].moves_uci) = Len(games[id].moves_san)

\* a game that holds one move entered as UCI and one entered as SAN
C12_Witness ==
    \E p \in Procs, q \in Procs :
        /\ proc[p].committed /\ proc[q].committed
        /\ proc[p].op = "move" /\ proc[q].op = "move"
        /\ proc[p].pre.id = proc[q].pre.id
        /\ UCIDecodes(ToLower(proc[p].move))
        /\ ~UCIDecodes(ToLower(proc[q].move))
        /\ Len(games[proc[p].pre.id].moves_san) = 2

\* C13: in every stored state of a game, turn is white exactly when the
\* number of moves in moves_uci is even, and black exactly when it is odd.
C13_TurnParity ==
    \A id \in DOMAIN games :
        games[id].turn = IF Len(games[id].moves_uci) % 2 = 0 THEN "white" ELSE "black"

\* the step is the EXEC of a committing call of kind op on game id
CommitStep(op, id) ==
    \E p \in Procs :
        /\ proc[p].op = op
        /\ proc[p].pc \in {"pm_exec", "rs_exec"}
        /\ proc[p].g.id = id
        /\ proc'[p].committed

\* C14: a game is ACTIVE with empty winner and outcome when it is created, and
\* its status changes only from ACTIVE: to FINISHED by a committed move won by
\* white or black (winner that side's id, outcome "white" or "black"), to DRAW
\* by a committed move (no winner, outcome "draw"), or to RESIGNED by a
\* committed resign.
C14_StatusSteps ==
    [][/\ \A id \in DOMAIN games' \ DOMAIN games :
             /\ games'[id].status = "ACTIVE"
             /\ games'[id].winner = "" /\ games'[id].outcome = ""
       /\ \A id \in DOMAIN games :
             games'[id].status # games[id].status =>
                /\ games[id].status = "ACTIVE"
                /\ \/ /\ games'[id].status = "FINISHED"
                      /\ CommitStep("move", id)
                      /\ \/ games'[id].outcome = "white" /\ games'[id].winner = games[id].white_id
                         \/ games'[id].outcome = "black" /\ games'[id].winner = games[id].black_id
                   \/ /\ games'[id].status = "DRAW"
                      /\ CommitStep("move", id)
                      /\ games'[id].winner = "" /\ games'[id].outcome = "draw"
                   \/ /\ games'[id].status = "RESIGNED"
                      /\ CommitStep("resign", id)]_vars

\* one game was won by a move and another one was resigned
C14_Witness ==
    \E a \in DOMAIN games, b \in DOMAIN games :
        /\ games[a].status = "FINISHED" /\ games[a].winner # ""
        /\ games[b].status = "RESIGNED"

\* C15: the EXEC of a committing ResignByRoom stores status RESIGNED, winner
\* the other participant's id and outcome "resign", and leaves moves_uci,
\* moves_san, fen, turn and both participant ids as they were stored.
C15_ResignEffect ==
    [][\A p \in Procs :
          proc[p].pc = "rs_exec" /\ proc'[p].committed =>
             LET id == proc[p].g.id
                 old == games[id]
                 new == games'[id]
             IN  /\ old.status = "ACTIVE"
                 /\ new.status = "RESIGNED"
                 /\ new.outcome = "resign"
                 /\ proc[p].user \in {old.white_id, old.black_id}
                 /\ new.winner \in {old.white_id, old.black_id} \ {proc[p].user}
                 /\ new.moves_uci = old.moves_uci /\ new.moves_san = old.moves_san
                 /\ new.fen = old.fen /\ new.turn = old.turn
                 /\ new.white_id = old.white_id /\ new.black_id = old.black_id]_vars

\* a committed resign of a game that already held a move
C15_Witness ==
    \E p \in Procs :
        /\ proc[p].op = "resign" /\ proc[p].committed
        /\ games[proc[p].g.id].status = "RESIGNED"
        /\ Len(games[proc[p].g.id].moves_uci) >= 1
        /\ games[proc[p].g.id].winner # proc[p].user

\* the move text is a legal move of the position neither as UCI nor as SAN
NoLegalMove(pos, moveStr) ==
    /\ ~(UCIDecodes(ToLower(moveStr)) /\ LegalAt(pos, ToLower(moveStr)))
    /\ SANDecode(pos, moveStr) = ""

\* the transaction of call p reads the caller's ACTIVE game in the room, and
\* it is not the caller's turn or the text is no legal move
MustReject(p) ==
    LET me == proc[p]
        cur == games[me.g.id]
        rc == reconstruct(cur.moves_uci)
    IN  /\ me.pc = "pm_get"
        /\ IsActive(cur) /\ LenUnchanged(cur, me.oldLen) /\ InRoom(cur, me.room)
        /\ playerColor(cur, me.user) # ""
        /\ \/ ~IsTurnOf(cur, playerColor(cur, me.user))
           \/ rc.ok /\ NoLegalMove(rc.pos, me.move)

\* C16: a PlayMoveByRoom call made out of turn, or with a text that is
\* neither a legal UCI move nor a legal SAN move, is rejected: the stored game
\* stays as it is and the call returns a non-empty text with a nil error.
C16_RejectKeepsGame ==
    [][\A p \in Procs :
          MustReject(p) /\ proc'[p].pc # "pm_get" =>
             /\ proc'[p].pc = "done"
             /\ ~proc'[p].committed
             /\ proc'[p].ret.text # ""
             /\ proc'[p].ret.err = "nil"
             /\ games' = games]_vars

\* C17: a PlayMoveByRoom call selects the most recently updated ACTIVE game of
\* the user that is bound to the room, and its steps change that game only:
\* every other game, also of the same user, stays as it is.
C17_RoomScoped ==
    [][\A p \in Procs :
          /\ proc[p].pc = "idle" /\ proc'[p].pc = "pm_watch" =>
                LET g == proc'[p].g
                IN  /\ g = games[g.id] /\ g.status = "ACTIVE"
                    /\ proc'[p].user \in {g.white_id, g.black_id}
                    /\ g.origin_room = proc'[p].room \/ g.resolve_room = proc'[p].room
                    /\ \A o \in DOMAIN games :
                          /\ games[o].status = "ACTIVE"
                          /\ proc'[p].user \in {games[o].white_id, games[o].black_id}
                          /\ proc'[p].room \in {games[o].origin_room, games[o].resolve_room}
                          => games[o].updated_at <= g.updated_at
          /\ proc[p].op = "move" /\ proc[p].pc = "pm_exec" /\ proc'[p].pc # "pm_exec" =>
                \A id \in DOMAIN games :
                    games'[id] # games[id] =>
                       /\ id = proc[p].g.id
                       /\ proc[p].room \in {games[id].origin_room, games[id].resolve_room}]_vars

\* a committed move of a user who has a second ACTIVE game bound to other
\* rooms, which is still as it was created
C17_Witness ==
    \E p \in Procs, o \in DOMAIN games :
        /\ proc[p].op = "move" /\ proc[p].committed
        /\ o # proc[p].g.id
        /\ proc[p].user \in {games[o].white_id, games[o].black_id}
        /\ proc[p].room \notin {games[o].origin_room, games[o].resolve_room}
        /\ games[o].status = "ACTIVE" /\ games[o].moves_uci = <<>>
        /\ Len(games[proc[p].g.id].moves_uci) >= 1

\* the step in which process p, having been idle, issues Make
MakeStarts(p) ==
    /\ proc[p].pc = "idle"
    /\ proc'[p].op = "make"
    /\ proc'[p].pc # "idle"

BusyReturn(p) ==
    /\ proc'[p].pc = "done"
    /\ proc'[p].ret.err = ErrPlayerBusyInRoom
    /\ UNCHANGED <<games, chanVars>>

\* C18: a Make whose caller has a stored ACTIVE game in the room returns
\* PlayerBusyInRoom and allocates no channel; a Join that reaches its busy
\* checks returns PlayerBusyInRoom and creates no game when the joiner has a
\* stored ACTIVE game in the joining room or the creator has one in the
\* creator's room.
C18_BusyRejected ==
    [][\A p \in Procs :
          /\ (MakeStarts(p) /\ ActiveGamesOf(proc'[p].user, proc'[p].room) # {})
                => BusyReturn(p)
          /\ (proc[p].pc = "jn_busy1" /\ proc'[p].pc # "jn_busy1"
                /\ ActiveGamesOf(proc[p].user, proc[p].room) # {})
                => BusyReturn(p)
          /\ (proc[p].pc = "jn_busy2" /\ proc'[p].pc # "jn_busy2"
                /\ ActiveGamesOf(proc[p].meta.creator_id, proc[p].meta.creator_room) # {})
                => BusyReturn(p)]_vars

\* the step in which process p, having been idle, issues Join
JoinStarts(p) ==
    /\ proc[p].pc = "idle"
    /\ proc'[p].op = "join"
    /\ proc'[p].pc # "idle"

ReturnsErr(p, err) ==
    /\ proc'[p].pc = "done"
    /\ proc'[p].ret.err = err
    /\ UNCHANGED chanVars

\* C19: a Join on a code whose meta is missing returns ChannelGone, on a code
\* whose state is not LOBBY returns ChannelActive, and on a code whose
\* participants set has two members returns Full (members are never removed,
\* so a set that is full when the call starts is full at its SCARD); no step of
\* such a call changes the meta, the participants set, the rooms set or the
\* caller's channel index.
C19_RejectedJoinKeepsChannel ==
    [][/\ \A c \in Codes : chParts[c] \subseteq chParts'[c]
       /\ \A p \in Procs :
            /\ JoinStarts(p) =>
                 LET c == proc'[p].code
                 IN  /\ UNCHANGED chanVars
                     /\ c \notin DOMAIN chMeta => ReturnsErr(p, ErrChannelGone)
                     /\ (c \in DOMAIN chMeta /\ chMeta[c].state # "LOBBY")
                            => ReturnsErr(p, ErrChannelActive)
                     /\ (c \in DOMAIN chMeta /\ chMeta[c].state = "LOBBY")
                            => proc'[p].pc = "jn_watch"
            /\ (proc[p].pc = "jn_watch" /\ proc'[p].pc # "jn_watch")
                 => (proc'[p].pc = "jn_scard" /\ UNCHANGED chanVars)
            /\ (proc[p].pc = "jn_scard" /\ proc'[p].pc # "jn_scard"
                  /\ Cardinality(chParts[proc[p].code]) >= 2)
                 => ReturnsErr(p, ErrFull)]_vars

C19_Witness ==
    \E p \in Procs :
        /\ proc[p].pc = "done" /\ proc[p].op = "join" /\ proc[p].ret.err = ErrFull
        /\ Cardinality(chParts[proc[p].code]) >= 2
        /\ chMeta[proc[p].code].state = "LOBBY"

\* C20: the SetNX that allocates a code finds its key absent, and no key is
\* ever removed, so the key was absent before the call; in the state in which
\* Make returns the code, the meta has state LOBBY with the caller as creator,
\* the rooms set equals {room}, the creator is in the participants set, and
\* the code is in the lobby index and in the creator's channel index.
C20_MakePostcondition ==
    [][/\ DOMAIN chMeta \subseteq DOMAIN chMeta'
       /\ \A p \in Procs :
            /\ (proc[p].pc = "mk_setnx" /\ proc'[p].pc = "mk_save")
                 => proc'[p].code \notin DOMAIN chMeta
            /\ (proc[p].pc = "mk_lobby" /\ proc'[p].pc = "done")
                 => LET c == proc[p].code
                        u == proc[p].user
                    IN  /\ proc'[p].ret.err = "nil"
                        /\ chMeta'[c].state = "LOBBY"
                        /\ chMeta'[c].creator_id = u
                        /\ chRooms'[c] = {proc[p].room}
                        /\ u \in chParts'[c]
                        /\ c \in chLobby'
                        /\ c \in chUserIdx'[u]]_vars

\* a call that committed a change of game id and has not yet run its
\* persistIfFinal step
PersistPending(id) ==
    \E p \in Procs : proc[p].pc \in {"pm_persist", "rs_persist"} /\ proc[p].g.id = id

MethodOf(status) ==
    CASE status = "FINISHED" -> "checkmate"
      [] status = "DRAW" -> "draw"
      [] status = "RESIGNED" -> "resignation"
      [] OTHER -> ""

SavedAsStatus ==
    \A id \in DOMAIN games :
        /\ Len(saved[id]) <= 1
        /\ games[id].status = "ACTIVE" => saved[id] = <<>>
        /\ (games[id].status \in Terminal /\ ~PersistPending(id))
              => /\ Len(saved[id]) = 1
                 /\ saved[id][1].method = MethodOf(games[id].status)

\* C26: SaveResult is never invoked for a game that is ACTIVE and at most once
\* for any game; once the call that committed a terminal status has passed
\* its persist step, SaveResult was invoked exactly once, with method
\* checkmate for FINISHED, draw for DRAW and resignation for RESIGNED; and the
\* persist step leaves the value the call returns as the commit set it, also
\* when SaveResult fails.
C26_PersistOnce ==
    /\ []SavedAsStatus
    /\ [][\A p \in Procs :
            proc[p].pc \in {"pm_persist", "rs_persist"} /\ proc'[p].pc = "done"
                => proc'[p].ret = proc[p].ret]_vars

C26_Witness ==
    \E p \in Procs :
        /\ proc[p].pc = "done" /\ proc[p].committed
        /\ proc[p].ret.status \in Terminal
        /\ proc[p].ret.err = "nil"
        /\ saved[proc[p].ret.gid] = <<[method |-> MethodOf(proc[p].ret.status), ok |-> FALSE]>>

\* C27: every stored game to which a move was committed has a moves_uci list
\* that replays from the initial position, and its fen is the FEN of the
\* position that replay ends in (the position the next move is validated
\* against is that replay, reconstruct takes nothing else).
C27_FenIsReplay ==
    \A id \in DOMAIN games :
        Len(games[id].moves_uci) > 0 =>
            /\ reconstruct(games[id].moves_uci).ok
            /\ games[id].fen = FENOf(reconstruct(games[id].moves_uci).pos)

\* C28: the Del of the deferred release removes bot:leader_lock only when the
\* key holds the releasing instance's own id at that moment (a Del that finds
\* the key absent removes nothing); a lock that another instance acquired
\* after the Get is never deleted.
C28_ReleaseOwnLock ==
    [][\A i \in Instances :
          ~inst[i].released /\ inst'[i].released => lockVal \in {i, ""}]_vars

\* the refresh goroutine of instance i runs the Get of a tick and it succeeds
\* (the goroutine leaves "due" for Expire or the process ends)
RefreshReads(i) ==
    /\ inst[i].ref = "due"
    /\ inst'[i].ref \notin {"due", "wait"}

\* C30: when the Get of a refresh tick succeeds and bot:leader_lock is missing
\* or holds another instance's id, the instance exits in that step; an
\* instance that exited stays exited and handles no frame afterwards.
C30_LostLockExits ==
    /\ [][\A i \in Instances :
            (RefreshReads(i) /\ lockVal # i) => inst'[i].pc = "exited"]_vars
    /\ [][\A i \in Instances :
            inst[i].pc = "exited" => /\ inst'[i].pc = "exited"
                                     /\ inst'[i].handled = inst[i].handled]_vars

C30_Witness ==
    \E i, j \in Instances :
        /\ i # j
        /\ inst[i].pc = "exited" /\ inst[i].setnx = "ok" /\ ~inst[i].released
        /\ inst[i].handled > 0
        /\ lockVal = j

\* a Join that is about to call CreateGameFromChallenge can, with preference
\* pref, get the user w as white
CanStartWithWhite(p, pref, w) ==
    ENABLED (JN_CreateWith(p, pref) /\ games'[NextGameId].white_id = w)

\* C29: whatever colour preference is passed, a Join that starts a game can
\* end with the creator as white and with the joiner as white, and in every
\* game a Join creates white and black are the creator and the joiner in one
\* of the two orders.
C29_ColourIgnoresPreference ==
    /\ [](\A p \in Procs :
            (proc[p].pc = "jn_create" /\ NextGameId <= MaxGames) =>
                \A pref \in ColorChoices :
                    /\ CanStartWithWhite(p, pref, proc[p].meta.creator_id)
                    /\ CanStartWithWhite(p, pref, proc[p].user))
    /\ [][\A p \in Procs :
            (proc[p].pc = "jn_create" /\ proc'[p].pc = "jn_index") =>
                LET g == proc'[p].g
                    c == proc[p].meta.creator_id
                    j == proc[p].user
                IN  \/ g.white_id = c /\ g.black_id = j
                    \/ g.white_id = j /\ g.black_id = c]_vars

C29_Witness ==
    \E id \in joinGames, c \in DOMAIN chMeta :
        /\ chMeta[c].game_id = id
        /\ games[id].black_id = chMeta[c].creator_id
        /\ games[id].white_id # chMeta[c].creator_id

\* the display name the callback of instance i resolves for frame f: the name
\* cached for the frame's room and text within the sender TTL, else the
\* frame's own sender name
ResolvedName(i, f) == displayUser(i, f, CacheAfter(i, f))

OnIgnoreList(name) ==
    \E ig \in IgnoreSenders : Fold(TrimSpace(ig)) = Fold(TrimSpace(name))

Answers == answer'.seq # answer.seq

\* C21: a status, resign or move command takes exactly one route: PvP exactly
\* when the look-up of the sender's game in the room returned a game;
\* otherwise single-player exactly when that service reports a session;
\* otherwise nothing but the "no active game" text goes to the room
C21_OneRoute ==
    [][Answers /\ answer'.cmd \in {"status", "resign", "move"}
       => /\ answer'.route \in {"pvp", "legacy", "none"}
          /\ answer'.route = "pvp" <=> answer'.found # 0
          /\ answer'.route = "legacy" <=> (answer'.found = 0 /\ answer'.legacy = "session")
          /\ answer'.route = "legacy" => (Len(answer'.sends) = 1 /\ answer'.sends[1].kind = "legacy")
          /\ answer'.route = "none"
                => answer'.sends = <<TextTo(answer'.room, "no.active.game")>>
          /\ answer'.route = "pvp"
                => \A k \in 1..Len(answer'.sends) : answer'.sends[k].kind # "legacy"]_vars

SeqRange(s) == {s[k] : k \in 1..Len(s)}

\* a handler broadcasts to the rooms of a game in this step
Broadcasts == Answers /\ answer'.route = "pvp" /\ answer'.rooms # <<>>

CreatorMetas(gid) ==
    {chMeta[c] : c \in {x \in DOMAIN chMeta : chMeta[x].game_id = gid}}
    \cup {proc[p].meta : p \in {q \in Procs : proc[q].pc = "jn_save" /\ proc[q].g.id = gid}}

\* the viewer of a room: the creator in the creator's room, the other
\* participant elsewhere
RoomViewer(g, m, room) ==
    IF room = m.creator_room THEN m.creator_id ELSE opponentID(g, m.creator_id)

\* C24: in the start, move and status broadcasts the board for a room shows
\* the game as that room's viewer sees it, and is flipped exactly when the
\* viewer plays black
C24_BoardForViewer ==
    [][Broadcasts /\ answer'.cmd \in {"start", "move", "status"}
       => \A k \in 1..Len(answer'.sends) :
             LET s == answer'.sends[k]
                 g == games'[s.gid]
             IN  s.kind = "board"
                 => \A m \in CreatorMetas(s.gid) :
                       /\ s.color = playerColor(g, RoomViewer(g, m, s.room))
                       /\ s.flip <=> RoomViewer(g, m, s.room) = g.black_id]_vars

\* C25: after a committed resign every room of the fanout gets the loser text
\* exactly when its viewer is the resigning user, the winner text otherwise;
\* the resigner's room gets the loser text, the opponent's room the winner text
C25_ResignTexts ==
    [][Broadcasts /\ answer'.cmd = "resign" /\ answer'.committed
       => \A k \in 1..Len(answer'.sends), m \in CreatorMetas(answer'.gid) :
             LET s == answer'.sends[k]
                 g == games'[answer'.gid]
                 user == answer'.user
                 own == IF user = m.creator_id THEN g.origin_room ELSE g.resolve_room
                 other == IF user = m.creator_id THEN g.resolve_room ELSE g.origin_room
             IN  /\ s.text \in {"pvp.resign.loser", "pvp.resign.winner"}
                 /\ s.text = "pvp.resign.loser" <=> RoomViewer(g, m, s.room) = user
                 /\ s.room = own => s.text = "pvp.resign.loser"
                 /\ s.room = other /\ other # own => s.text = "pvp.resign.winner"]_vars

\* C32: a Join call that returns an error leaves the channel's participants
\* set, rooms set and the caller's channel index as they were before the call.
\* Members are never removed from a participants set, so a call that added its
\* caller as the second member (second) has changed the set for good: such a
\* call must not return an error.
C32_FailedJoinKeepsSets ==
    \A p \in Procs :
        (proc[p].pc = "done" /\ proc[p].op = "join" /\ proc[p].ret.err # "nil")
            => ~ (/\ proc[p].second
                  /\ proc[p].user \in chParts[proc[p].code]
                  /\ proc[p].code \in chUserIdx[proc[p].user])

\* C33: every game that a Join created has two distinct participants: its
\* white_id differs from its black_id, in every interleaving of Join calls.
C33_DistinctPlayers ==
    \A id \in joinGames : games[id].white_id # games[id].black_id

\* C34: ResignByRoom returns "game no longer active" only when the stored game
\* is no longer ACTIVE: a resign that lost its transaction to a concurrent
\* non-terminal move does not report it while the game is still ACTIVE.
C34_NoLongerActive ==
    \A p \in Procs :
        (/\ proc[p].pc = "done" /\ proc[p].op = "resign"
         /\ proc[p].ret.err = "game no longer active")
            => games[proc[p].g.id].status # "ACTIVE"

\* C35: every channel whose state is ACTIVE has a game_id naming a stored game
\* whose white_id and black_id are exactly the members of the channel's
\* participants set, and the channel's white_id and black_id are the game's.
C35_ActiveChannelHasGame ==
    \A c \in DOMAIN chMeta :
        chMeta[c].state = "ACTIVE" =>
            /\ chMeta[c].game_id \in DOMAIN games
            /\ LET g == games[chMeta[c].game_id]
               IN  /\ chParts[c] = {g.white_id, g.black_id}
                   /\ Cardinality(chParts[c]) = 2
                   /\ chMeta[c].white_id = g.white_id
                   /\ chMeta[c].black_id = g.black_id

\* userIDFromMessage: JSON.UserID when present, else the trimmed sender
userIDFromMessage(f) ==
    IF f.json /\ f.uid # "" THEN <<f.uid>> ELSE TrimSpace(f.sender)

\* log entry a is the minimal frame (sender name only) of a message and
\* entry b, later on the same instance and less than 2 s after it, is the
\* structured frame of the same room and text, which passed the gates
MinimalThenStructured(a, b) ==
    /\ a < b
    /\ flog[a].inst = flog[b].inst
    /\ ~flog[a].frame.json /\ flog[b].frame.json
    /\ extractRoomID(flog[a].frame) = extractRoomID(flog[b].frame)
    /\ messageText(flog[a].frame) = messageText(flog[b].frame)
    /\ flog[b].at - flog[a].at < DedupeTTL
    /\ flog[b].passed

\* C36: when a message arrives as a minimal frame followed by its structured
\* frame, the command is handled exactly once, and the handler's user is the
\* user_id of the structured frame, not the display name of the minimal one.
C36_HandledOnceByUserId ==
    \A a, b \in 1..Len(flog) :
        MinimalThenStructured(a, b) =>
            /\ Cardinality({x \in {a, b} : flog[x].out = "handled"}) = 1
            /\ \A x \in {a, b} :
                  flog[x].out = "handled"
                     => userIDFromMessage(flog[x].frame) = <<flog[b].frame.uid>>

\* C37: the dedup gates never drop a frame because of a frame of a different
\* user: two structured frames with the same room id and sanitized text and
\* different user_id, both past the other gates and less than 2 s apart, the
\* store answering both SetNX calls, are both handled.
C37_DedupPerUser ==
    \A a, b \in 1..Len(flog) :
        (/\ SamePair(a, b)
         /\ flog[a].frame.json /\ flog[b].frame.json
         /\ flog[a].frame.uid # flog[b].frame.uid
         /\ ~flog[a].failed /\ ~flog[b].failed)
            => flog[a].out = "handled" /\ flog[b].out = "handled"

\* C31: handlePvPMove sends a board only when the PlayMoveByRoom call it
\* issued committed the command's move; when the move was rejected it sends
\* exactly one text to the originating room and no board, also when another
\* move commits between the handler's lookup and that of PlayMoveByRoom.
C31_BoardOnlyWhenCommitted ==
    [][(Answers /\ answer'.cmd = "move" /\ answer'.route = "pvp" /\ ~answer'.committed)
          => /\ Len(answer'.sends) = 1
             /\ answer'.sends[1].kind = "text"
             /\ answer'.sends[1].room = answer'.room]_vars

\* the presenter.Board calls of an answer, in order
BoardCalls(sends) == SelectSeq(sends, LAMBDA s : s.kind \in {"board", "board_error"})

\* C38: in the fanout of a move a failed send to one room does not stop the
\* loop: presenter.Board is called for every room of the list, in the order of
\* the list; a presenter.Board call that failed is followed by one text to the
\* same room, and no other text is sent.
C38_FanoutSurvivesFailure ==
    [][(Broadcasts /\ answer'.cmd = "move")
          => LET sends == answer'.sends
                 calls_ == BoardCalls(sends)
             IN  /\ Len(calls_) = Len(answer'.rooms)
                 /\ \A k \in 1..Len(calls_) : calls_[k].room = answer'.rooms[k]
                 /\ \A k \in 1..Len(sends) :
                       /\ sends[k].kind = "board_error"
                             => /\ k < Len(sends)
                                /\ sends[k + 1].kind = "text"
                                /\ sends[k + 1].room = sends[k].room
                       /\ sends[k].kind = "text"
                             => /\ k > 1
                                /\ sends[k - 1].kind = "board_error"
                                /\ sends[k - 1].room = sends[k].room]_vars

\* the board for the first room of two failed: fallback text, then the board
\* of the second room
C38_Witness ==
    /\ answer.cmd = "move" /\ Len(answer.rooms) = 2
    /\ Len(answer.sends) = 3
    /\ answer.sends[1].kind = "board_error"
    /\ answer.sends[2].kind = "text" /\ answer.sends[2].room = answer.rooms[1]
    /\ answer.sends[3].kind = "board" /\ answer.sends[3].room = answer.rooms[2]

\* the position in the room list of the room of a send
RoomIndex(rooms, r) == CHOOSE j \in 1..Len(rooms) : rooms[j] = r

\* C39: in the start broadcast every send to a room happens before any send
\* to the next room of the prioritized list, and in each room the announce
\* text is sent before that room's board.
C39_StartOrder ==
    [][(Broadcasts /\ answer'.cmd = "start")
          => LET sends == answer'.sends
                 rooms == answer'.rooms
             IN  /\ \A k \in 1..Len(sends) : sends[k].room \in SeqRange(rooms)
                 /\ \A a, b \in 1..Len(sends) :
                       a < b => RoomIndex(rooms, sends[a].room) <= RoomIndex(rooms, sends[b].room)
                 /\ \A j \in 1..Len(rooms) :
                       \E a, b \in 1..Len(sends) :
                          /\ a < b
                          /\ sends[a].room = rooms[j] /\ sends[b].room = rooms[j]
                          /\ sends[a].kind = "text" /\ sends[a].text = "pvp.start.announce"
                          /\ sends[b].kind \in {"board", "board_error"}
                          /\ \A c \in 1..Len(sends) :
                                (sends[c].room = rooms[j] /\ c # b)
                                   => sends[c].kind = "text" /\ (c < b <=> c = a)]_vars

\* a start broadcast to two rooms in which the first room's board failed
C39_Witness ==
    /\ answer.cmd = "start" /\ Len(answer.rooms) = 2
    /\ Len(answer.sends) = 5
    /\ answer.sends[2].kind = "board_error"
    /\ answer.sends[3].text = "board.send.failed"
    /\ answer.sends[5].kind = "board"

\* the reconnect goroutines that are inside websocket.Dial
Dialing == ws.dial[1] + ws.dial[2] + ws.dial[3] + ws.dial[4] + ws.dial[5]

\* C40: for one WebSocket, after any sequence of read errors, ping failures
\* and reconnects, at most one listen loop and at most one ping loop are
\* running and at most one reconnect goroutine is dialing, and no dial is
\* started after Close.
C40_SingleLoops ==
    /\ ws.listens <= 1
    /\ ws.pings[0] + ws.pings[1] <= 1
    /\ Dialing <= 1
    /\ ~ws.late

====
